---- MODULE Spec2Model ----
(***************************************************************************)
(* h5animate codec (packages/libs/h5animate): the binary reader/writer,    *)
(* the encoder, the decoder and the validator, modelled over byte          *)
(* sequences and JavaScript values.                                        *)
(*                                                                         *)
(* A byte buffer is a sequence of integers 0..255.  A JavaScript string is *)
(* the sequence of its code points.  A JavaScript value is a tagged record *)
(* [t, v]; an object keeps its properties as an ordered sequence of        *)
(* <<key, value>> pairs, in insertion order, as JSON.stringify walks them. *)
(***************************************************************************)
EXTENDS Integers, Sequences, FiniteSets, TLC

VARIABLES
    pc,          \* position of the caller's script
    meta,        \* argument of encodeH5Animate: the metadata
    spriteInfo,  \* argument of encodeH5Animate: the sprite table
    webpData,    \* argument of encodeH5Animate: the pixel payload
    checked,     \* outcome of validateEncodeInputComplete on the arguments
    encoded,     \* outcome of encodeH5Animate on the arguments
    damage,      \* what happened to the file between encoding and decoding
    buffer,      \* the bytes handed to decodeH5Animate
    decoded,     \* outcome of decodeH5Animate(buffer)
    reencoded,   \* outcome of encodeH5Animate on the decoded bundle
    redecoded,   \* outcome of decodeH5Animate on the re-encoded buffer
    legacyData,  \* argument of the converter: the legacy .animate data
    legacyChecked, \* outcomes of validateLegacyFormat and validateLegacyAnimateFile
    metaConverted, \* outcome of convertMetadata(legacyData)
    converted,   \* outcome of convertToH5Animate(legacyData)
    steps,       \* the steps convertToH5Animate has taken, in their order
    calls,       \* the calls made so far to the pixel codec (sharp) and the encoder
    images,      \* argument of createVerticalSpriteSheet: the image buffers
    packed,      \* outcome of createVerticalSpriteSheet(images)
    request,     \* arguments of extractFrameByIndex and extractAllFrames
    extracted,   \* outcome of extractFrameByIndex
    allExtracted, \* outcome of extractAllFrames
    parser,      \* a BinaryParser: its buffer and its offset
    lastRead,    \* the last read asked of the parser, and its outcome
    consumed     \* the sizes of the reads that succeeded, summed up

\* the state of the encode/decode script, of the converter script and of the
\* sprite sheet script
codecVars == <<meta, spriteInfo, webpData, checked, encoded, damage, buffer,
               decoded, reencoded, redecoded>>
converterVars == <<legacyData, legacyChecked, metaConverted, converted, steps>>
sheetVars == <<images, packed, request, extracted, allExtracted>>
parserVars == <<parser, lastRead, consumed>>

vars == <<pc, codecVars, converterVars, sheetVars, parserVars, calls>>

----------------------------------------------------------------------------
(* JavaScript values *)

Undefined == [t |-> "undefined", v |-> <<>>]
Null == [t |-> "null", v |-> <<>>]
NaN == [t |-> "nan", v |-> <<>>]
Num(n) == [t |-> "number", v |-> n]
\* a number that is no integer, n / d in lowest terms with d > 1
Frac(n, d) == [t |-> "fraction", v |-> <<n, d>>]
Str(s) == [t |-> "string", v |-> s]
Bool(b) == [t |-> "boolean", v |-> b]
Arr(s) == [t |-> "array", v |-> s]
Obj(ps) == [t |-> "object", v |-> ps]

\* typeof value
TypeOf(x) ==
    CASE x.t \in {"number", "nan", "fraction"} -> "number"
      [] x.t \in {"null", "array", "object", "buffer"} -> "object"
      [] OTHER -> x.t

IsArray(x) == x.t = "array"

\* value === null || value === undefined
IsNullish(x) == x.t \in {"null", "undefined"}

\* key in obj
HasKey(o, k) == o.t = "object" /\ \E i \in 1..Len(o.v) : o.v[i][1] = k

\* obj.key on a non-nullish value: undefined when the property is absent
Get(o, k) ==
    IF HasKey(o, k)
    THEN o.v[CHOOSE i \in 1..Len(o.v) :
                 /\ o.v[i][1] = k
                 /\ \A j \in (i + 1)..Len(o.v) : o.v[j][1] # k][2]
    ELSE Undefined

\* arr[i] for a zero-based index: undefined past the end and on primitives
At(a, i) ==
    IF a.t = "array" /\ i < Len(a.v) THEN a.v[i + 1]
    ELSE IF a.t = "string" /\ i < Len(a.v) THEN Str(<<a.v[i + 1]>>)
    ELSE Undefined

\* a Buffer holding the given bytes
Buf(bytes) == [t |-> "buffer", v |-> bytes]

\* Buffer.isBuffer(value)
IsBuffer(x) == x.t = "buffer"

Min(a, b) == IF a < b THEN a ELSE b
Max(a, b) == IF a > b THEN a ELSE b

\* a ?? b
Coalesce(a, b) == IF IsNullish(a) THEN b ELSE a

\* the truthiness of a value
Truthy(x) ==
    CASE x.t \in {"undefined", "null", "nan"} -> FALSE
      [] x.t = "number" -> x.v # 0
      [] x.t = "string" -> x.v # <<>>
      [] x.t = "boolean" -> x.v
      [] OTHER -> TRUE

\* property names used by the codec, as code point sequences
K ==
    [ratio |-> <<114, 97, 116, 105, 111>>,
     frame |-> <<102, 114, 97, 109, 101>>,
     sound |-> <<115, 111, 117, 110, 100>>,
     objects |-> <<111, 98, 106, 101, 99, 116, 115>>,
     name |-> <<110, 97, 109, 101>>,
     volume |-> <<118, 111, 108, 117, 109, 101>>,
     pitch |-> <<112, 105, 116, 99, 104>>,
     index |-> <<105, 110, 100, 101, 120>>,
     x |-> <<120>>,
     y |-> <<121>>,
     scale |-> <<115, 99, 97, 108, 101>>,
     opacity |-> <<111, 112, 97, 99, 105, 116, 121>>,
     mirror |-> <<109, 105, 114, 114, 111, 114>>,
     rotate |-> <<114, 111, 116, 97, 116, 101>>,
     count |-> <<99, 111, 117, 110, 116>>,
     dimensions |-> <<100, 105, 109, 101, 110, 115, 105, 111, 110, 115>>,
     width |-> <<119, 105, 100, 116, 104>>,
     height |-> <<104, 101, 105, 103, 104, 116>>,
     se |-> <<115, 101>>,
     bitmaps |-> <<98, 105, 116, 109, 97, 112, 115>>,
     frame_max |-> <<102, 114, 97, 109, 101, 95, 109, 97, 120>>,
     frames |-> <<102, 114, 97, 109, 101, 115>>]

RECURSIVE FlattenRange(_, _, _)
FlattenRange(ss, lo, hi) ==
    IF lo > hi THEN <<>>
    ELSE IF lo = hi THEN ss[lo]
    ELSE LET mid == (lo + hi) \div 2
         IN FlattenRange(ss, lo, mid) \o FlattenRange(ss, mid + 1, hi)

\* the concatenation of a sequence of sequences
Flatten(ss) == FlattenRange(ss, 1, Len(ss))

RECURSIVE Join(_, _)
Join(ss, sep) ==
    IF ss = <<>> THEN <<>>
    ELSE IF Len(ss) = 1 THEN ss[1]
    ELSE ss[1] \o sep \o Join(Tail(ss), sep)

----------------------------------------------------------------------------
(* UTF-8, as Buffer.from(text, "utf8") and buf.toString("utf8") *)

Utf8Char(cp) ==
    IF cp < 128 THEN <<cp>>
    ELSE IF cp < 2048 THEN <<192 + (cp \div 64), 128 + (cp % 64)>>
    ELSE <<224 + (cp \div 4096), 128 + ((cp \div 64) % 64), 128 + (cp % 64)>>

Utf8Encode(s) == Flatten([i \in 1..Len(s) |-> Utf8Char(s[i])])

IsCont(bytes, i) == i >= 1 /\ i <= Len(bytes) /\ bytes[i] >= 128 /\ bytes[i] < 192

\* a lead byte of a two-byte (three-byte) sequence followed by its continuation bytes
IsLead2(bytes, i) ==
    i >= 1 /\ i <= Len(bytes) /\ bytes[i] >= 194 /\ bytes[i] < 224 /\ IsCont(bytes, i + 1)
IsLead3(bytes, i) ==
    /\ i >= 1 /\ i <= Len(bytes)
    /\ bytes[i] >= 225 /\ bytes[i] < 240 /\ bytes[i] # 237
    /\ IsCont(bytes, i + 1) /\ IsCont(bytes, i + 2)

\* byte i belongs to the sequence a lead byte before it opened
IsConsumed(bytes, i) ==
    IsLead2(bytes, i - 1) \/ IsLead3(bytes, i - 1) \/ IsLead3(bytes, i - 2)

\* the code point decoded at byte i; an ill-formed byte decodes to U+FFFD
Utf8CodePoint(bytes, i) ==
    IF bytes[i] < 128 THEN bytes[i]
    ELSE IF IsLead2(bytes, i) THEN (bytes[i] - 192) * 64 + (bytes[i + 1] - 128)
    ELSE IF IsLead3(bytes, i)
    THEN (bytes[i] - 224) * 4096 + (bytes[i + 1] - 128) * 64 + (bytes[i + 2] - 128)
    ELSE 65533

Utf8Decode(bytes) ==
    LET starts == SelectSeq([i \in 1..Len(bytes) |-> i],
                            LAMBDA i : ~IsConsumed(bytes, i))
    IN [j \in 1..Len(starts) |-> Utf8CodePoint(bytes, starts[j])]

----------------------------------------------------------------------------
(* The encoder's object compaction (encoder.ts) *)

\* a TypeError raised while serialising (property access on null or undefined)
Thrown == <<-2>>
\* JSON.stringify's "undefined": the property is left out
NoText == <<-1>>

convertObjectToArray(obj) ==
    Arr(<<Get(obj, K.index), Get(obj, K.x), Get(obj, K.y), Get(obj, K.scale),
          Get(obj, K.opacity), Coalesce(Get(obj, K.mirror), Num(0)),
          Coalesce(Get(obj, K.rotate), Num(0))>>)

metaReplacer(key, value) ==
    IF key = K.objects /\ IsArray(value)
    THEN Arr([i \in 1..Len(value.v) |-> convertObjectToArray(value.v[i])])
    ELSE value

\* metaReplacer reads obj.index of every element: a null or undefined element throws
metaReplacerThrows(key, value) ==
    /\ key = K.objects
    /\ IsArray(value)
    /\ \E i \in 1..Len(value.v) : IsNullish(value.v[i])

----------------------------------------------------------------------------
(* JSON.stringify(value, metaReplacer) and JSON.parse(text) *)

RECURSIVE Digits(_)
Digits(n) == IF n < 10 THEN <<48 + n>> ELSE Digits(n \div 10) \o <<48 + (n % 10)>>

NumText(n) == IF n < 0 THEN <<45>> \o Digits(-n) ELSE Digits(n)

\* the strings of the model hold no character that JSON escapes
Quote(s) == <<34>> \o s \o <<34>>

\* the texts of the literals
Literal == [null |-> <<110, 117, 108, 108>>, true |-> <<116, 114, 117, 101>>, false |-> <<102, 97, 108, 115, 101>>]

RECURSIVE JsonStringifyWith(_, _, _), JsonOf(_, _)
\* JSON.stringify(value, replacer) below the property `key`; replace says whether
\* metaReplacer is the replacer or none is given
JsonStringifyWith(replace, key, value) ==
    IF replace /\ metaReplacerThrows(key, value) THEN Thrown
    ELSE JsonOf(replace, IF replace THEN metaReplacer(key, value) ELSE value)

\* the text of the array whose elements have the texts `parts`
JsonArrayText(parts) ==
    IF \E i \in 1..Len(parts) : parts[i] = Thrown THEN Thrown
    ELSE <<91>> \o Join([i \in 1..Len(parts) |->
                            IF parts[i] = NoText THEN Literal.null ELSE parts[i]], <<44>>)
         \o <<93>>

\* the text of the object whose properties have the names `keys` and the texts `texts`
JsonObjectText(keys, texts) ==
    IF \E i \in 1..Len(texts) : texts[i] = Thrown THEN Thrown
    ELSE <<123>>
         \o Join(SelectSeq([i \in 1..Len(texts) |->
                              IF texts[i] = NoText THEN NoText
                              ELSE Quote(keys[i]) \o <<58>> \o texts[i]],
                           LAMBDA part : part # NoText), <<44>>)
         \o <<125>>

\* the text of a value the replacer has been applied to
JsonOf(replace, value) ==
    CASE value.t \in {"null", "nan"} -> Literal.null
      [] value.t = "number" -> NumText(value.v)
      [] value.t = "boolean" -> IF value.v THEN Literal.true ELSE Literal.false
      [] value.t = "string" -> Quote(value.v)
      [] value.t = "array" ->
            JsonArrayText([i \in 1..Len(value.v) |->
                             JsonStringifyWith(replace, Digits(i - 1), value.v[i])])
      [] value.t = "object" ->
            JsonObjectText([i \in 1..Len(value.v) |-> value.v[i][1]],
                           [i \in 1..Len(value.v) |->
                              JsonStringifyWith(replace, value.v[i][1], value.v[i][2])])
      [] OTHER -> NoText

\* JSON.stringify(value, metaReplacer)
JsonStringify(key, value) == JsonStringifyWith(TRUE, key, value)

\* JSON.stringify(value)
JsonText(value) == JsonStringifyWith(FALSE, <<>>, value)

IsWs(c) == c \in {32, 9, 10, 13}
IsDigit(c) == c >= 48 /\ c <= 57

RECURSIVE SkipWs(_, _)
SkipWs(s, i) == IF i <= Len(s) /\ IsWs(s[i]) THEN SkipWs(s, i + 1) ELSE i

HasLiteral(s, i, lit) ==
    /\ i + Len(lit) - 1 <= Len(s)
    /\ \A k \in 1..Len(lit) : s[i + k - 1] = lit[k]

ParseFail == [ok |-> FALSE, val |-> Undefined, pos |-> 0]
Parsed(val, pos) == [ok |-> TRUE, val |-> val, pos |-> pos]

RECURSIVE DigitsEnd(_, _)
DigitsEnd(s, i) == IF i <= Len(s) /\ IsDigit(s[i]) THEN DigitsEnd(s, i + 1) ELSE i

RECURSIVE DigitsValue(_, _, _)
DigitsValue(s, i, j) ==
    IF j <= i THEN 0 ELSE DigitsValue(s, i, j - 1) * 10 + (s[j - 1] - 48)

\* an integer literal at i: -?(0|[1-9][0-9]*); the texts of the model carry no
\* fraction and no exponent
ParseNumber(s, i) ==
    LET neg == s[i] = 45
        d == IF neg THEN i + 1 ELSE i
        e == DigitsEnd(s, d)
    IN IF e = d \/ (s[d] = 48 /\ e > d + 1) THEN ParseFail
       ELSE IF e <= Len(s) /\ s[e] \in {46, 101, 69} THEN ParseFail
       ELSE Parsed(Num(IF neg THEN 0 - DigitsValue(s, d, e) ELSE DigitsValue(s, d, e)), e)

RECURSIVE StringEnd(_, _)
\* the index of the closing quote, 0 when the string is unterminated or holds a
\* control character or an escape
StringEnd(s, i) ==
    IF i > Len(s) \/ s[i] < 32 \/ s[i] = 92 THEN 0
    ELSE IF s[i] = 34 THEN i
    ELSE StringEnd(s, i + 1)

ParseString(s, i) ==
    LET e == StringEnd(s, i + 1)
    IN IF e = 0 THEN ParseFail ELSE Parsed(Str(SubSeq(s, i + 1, e - 1)), e + 1)

RECURSIVE ParseValue(_, _), ParseElements(_, _, _), ParseMembers(_, _, _)

ParseValue(s, i0) ==
    LET i == SkipWs(s, i0) IN
    IF i > Len(s) THEN ParseFail
    ELSE IF s[i] = 123 THEN
        LET j == SkipWs(s, i + 1)
        IN IF j <= Len(s) /\ s[j] = 125 THEN Parsed(Obj(<<>>), j + 1)
           ELSE ParseMembers(s, j, <<>>)
    ELSE IF s[i] = 91 THEN
        LET j == SkipWs(s, i + 1)
        IN IF j <= Len(s) /\ s[j] = 93 THEN Parsed(Arr(<<>>), j + 1)
           ELSE ParseElements(s, j, <<>>)
    ELSE IF s[i] = 34 THEN ParseString(s, i)
    ELSE IF s[i] = 45 \/ IsDigit(s[i]) THEN ParseNumber(s, i)
    ELSE IF HasLiteral(s, i, Literal.null) THEN Parsed(Null, i + 4)
    ELSE IF HasLiteral(s, i, Literal.true) THEN Parsed(Bool(TRUE), i + 4)
    ELSE IF HasLiteral(s, i, Literal.false) THEN Parsed(Bool(FALSE), i + 5)
    ELSE ParseFail

\* the elements of an array from i on, acc being those already read
ParseElements(s, i, acc) ==
    LET r == ParseValue(s, i) IN
    IF ~r.ok THEN ParseFail
    ELSE LET j == SkipWs(s, r.pos) IN
        IF j > Len(s) THEN ParseFail
        ELSE IF s[j] = 93 THEN Parsed(Arr(Append(acc, r.val)), j + 1)
        ELSE IF s[j] = 44 THEN ParseElements(s, j + 1, Append(acc, r.val))
        ELSE ParseFail

\* the members of an object from i on, acc being those already read
ParseMembers(s, i0, acc) ==
    LET i == SkipWs(s, i0) IN
    IF i > Len(s) \/ s[i] # 34 THEN ParseFail
    ELSE LET k == ParseString(s, i) IN
        IF ~k.ok THEN ParseFail
        ELSE LET c == SkipWs(s, k.pos) IN
            IF c > Len(s) \/ s[c] # 58 THEN ParseFail
            ELSE LET r == ParseValue(s, c + 1) IN
                IF ~r.ok THEN ParseFail
                ELSE LET j == SkipWs(s, r.pos)
                         next == Append(acc, <<k.val.v, r.val>>)
                     IN IF j > Len(s) THEN ParseFail
                        ELSE IF s[j] = 125 THEN Parsed(Obj(next), j + 1)
                        ELSE IF s[j] = 44 THEN ParseMembers(s, j + 1, next)
                        ELSE ParseFail

\* the value read is the whole text, but for white space
WholeText(s, r) == IF r.ok /\ SkipWs(s, r.pos) > Len(s) THEN r ELSE ParseFail

\* JSON.parse(text): [ok |-> FALSE] stands for the SyntaxError
JsonParse(s) == WholeText(s, ParseValue(s, 1))


----------------------------------------------------------------------------
(* Errors (errors.ts) *)

\* a taxonomy in which the deprecated member shares the code of its successor
H5AnimateErrorCode_LegacyAlias ==
    [INVALID_SIGNATURE |-> "H5A001", INVALID_VERSION |-> "H5A002",
     CORRUPTED_HEADER |-> "H5A003", INVALID_IMAGE_DATA |-> "H5A004",
     INVALID_METADATA |-> "H5A005", FILE_TRUNCATED |-> "H5A006",
     SIZE_MISMATCH |-> "H5A007", VALIDATION_ERROR |-> "H5A100",
     TYPE_MISMATCH |-> "H5A101", MISSING_REQUIRED_FIELD |-> "H5A102",
     VALUE_OUT_OF_RANGE |-> "H5A103", INVALID_ARRAY_LENGTH |-> "H5A104",
     CONVERSION_FAILED |-> "H5A200", JSON_PARSE_ERROR |-> "H5A201",
     BASE64_DECODE_ERROR |-> "H5A202", WEBP_PROCESSING_ERROR |-> "H5A300",
     IMAGE_MERGE_ERROR |-> "H5A301", FRAME_EXTRACTION_ERROR |-> "H5A302",
     VALIDATION_ERROR_LEGACY |-> "H5A100"]

H5AnimateErrorCode ==
    [INVALID_SIGNATURE |-> "H5A001", INVALID_VERSION |-> "H5A002",
     CORRUPTED_HEADER |-> "H5A003", INVALID_IMAGE_DATA |-> "H5A004",
     INVALID_METADATA |-> "H5A005", FILE_TRUNCATED |-> "H5A006",
     SIZE_MISMATCH |-> "H5A007", VALIDATION_ERROR |-> "H5A100",
     TYPE_MISMATCH |-> "H5A101", MISSING_REQUIRED_FIELD |-> "H5A102",
     VALUE_OUT_OF_RANGE |-> "H5A103", INVALID_ARRAY_LENGTH |-> "H5A104",
     CONVERSION_FAILED |-> "H5A200", JSON_PARSE_ERROR |-> "H5A201",
     BASE64_DECODE_ERROR |-> "H5A202", WEBP_PROCESSING_ERROR |-> "H5A300",
     IMAGE_MERGE_ERROR |-> "H5A301", FRAME_EXTRACTION_ERROR |-> "H5A302",
     VALIDATION_ERROR_LEGACY |-> "H5A008"]

\* new H5AnimateError(code, message, options): position is a JavaScript value
\* (Undefined when not given); missingFields <<>> and fieldPath "" stand for
\* "not given"
H5AnimateError(code, position, missingFields, fieldPath) ==
    [name |-> "H5AnimateError", code |-> code, position |-> position,
     missingFields |-> missingFields, fieldPath |-> fieldPath]

\* an error of the JavaScript runtime: it is no H5AnimateError and carries no code
RuntimeError(name) ==
    [name |-> name, code |-> "", position |-> Undefined,
     missingFields |-> <<>>, fieldPath |-> ""]

NoError == RuntimeError("")

createInvalidSignatureError(actual) ==
    H5AnimateError(H5AnimateErrorCode.INVALID_SIGNATURE, Num(0), <<>>, "")

createInvalidMetadataError(missingFields) ==
    H5AnimateError(H5AnimateErrorCode.INVALID_METADATA, Undefined, missingFields, "")

createValidationError(missingFields) ==
    H5AnimateError(H5AnimateErrorCode.VALIDATION_ERROR, Undefined, missingFields, "")

createTypeMismatchError(fieldPath) ==
    H5AnimateError(H5AnimateErrorCode.TYPE_MISMATCH, Undefined, <<>>, fieldPath)

createMissingFieldError(missingFields, fieldPath) ==
    H5AnimateError(H5AnimateErrorCode.MISSING_REQUIRED_FIELD, Undefined,
                   missingFields, fieldPath)

createValueOutOfRangeError(fieldPath) ==
    H5AnimateError(H5AnimateErrorCode.VALUE_OUT_OF_RANGE, Undefined, <<>>, fieldPath)

\* the outcome of a call: a returned value, or the error it threw
Return(val) == [ok |-> TRUE, val |-> val, err |-> NoError]
Throw(err) == [ok |-> FALSE, val |-> Undefined, err |-> err]
NotCalled == [ok |-> FALSE, val |-> Undefined, err |-> RuntimeError("not called")]

----------------------------------------------------------------------------
(* BinaryParser and BinaryWriter (binary.ts) *)

\* value as four little-endian bytes
U32Bytes(value) ==
    <<value % 256, (value \div 256) % 256, (value \div 65536) % 256,
      (value \div 16777216) % 256>>

\* DataView.getUint32(offset, true)
U32At(bytes, offset) ==
    bytes[offset + 1] + 256 * bytes[offset + 2] + 65536 * bytes[offset + 3]
        + 16777216 * bytes[offset + 4]

\* buffer.subarray(start, end): a negative index counts from the end, both are
\* clamped to the buffer, and an end before the start gives no bytes
Subarray(bytes, start, end) ==
    LET n == Len(bytes)
        a == IF start < 0 THEN Max(n + start, 0) ELSE Min(start, n)
        b == IF end < 0 THEN Max(n + end, 0) ELSE Min(end, n)
    IN IF b <= a THEN <<>> ELSE SubSeq(bytes, a + 1, b)

\* BinaryParser.checkBounds: TRUE when the read is let through
checkBounds(bytes, offset, bytesToRead) == ~(offset + bytesToRead > Len(bytes))

\* what checkBounds throws
BoundsError(offset) ==
    H5AnimateError(H5AnimateErrorCode.CORRUPTED_HEADER, Num(offset), <<>>, "")

\* the outcome of a read: the value and the parser's offset after it
ReadOk(val, offset) == [ok |-> TRUE, val |-> val, offset |-> offset, err |-> NoError]
ReadThrow(err, offset) == [ok |-> FALSE, val |-> Undefined, offset |-> offset, err |-> err]

\* DataView.getUint32 at a negative offset is a RangeError
readUInt32LE(bytes, offset) ==
    IF ~checkBounds(bytes, offset, 4) THEN ReadThrow(BoundsError(offset), offset)
    ELSE IF offset < 0 THEN ReadThrow(RuntimeError("RangeError"), offset)
    ELSE ReadOk(U32At(bytes, offset), offset + 4)

\* bytes.toString("ascii"): the highest bit of every byte is unset
AsciiDecode(bytes) == [i \in 1..Len(bytes) |-> bytes[i] % 128]

readString(bytes, offset, length) ==
    IF ~checkBounds(bytes, offset, length) THEN ReadThrow(BoundsError(offset), offset)
    ELSE ReadOk(AsciiDecode(Subarray(bytes, offset, offset + length)), offset + length)

\* a read without the check of the bounds: subarray gives what there is
readBytes_Unchecked(bytes, offset, length) ==
    ReadOk(Subarray(bytes, offset, offset + length), offset + length)

readBytes(bytes, offset, length) ==
    IF ~checkBounds(bytes, offset, length) THEN ReadThrow(BoundsError(offset), offset)
    ELSE ReadOk(Subarray(bytes, offset, offset + length), offset + length)

\* new BinaryWriter(totalSize): Buffer.allocUnsafe leaves the memory as it was,
\* here filled with the byte `fill`; `written` records the indices written since
NewWriter(totalSize, fill) ==
    [buffer |-> [i \in 1..totalSize |-> fill], offset |-> 0, written |-> {},
     err |-> NoError]

\* source copied into the buffer at the writer's offset, cut at the buffer's end
CopyInto(w, source) ==
    LET room == Max(Len(w.buffer) - w.offset, 0)
        n == Min(Len(source), room)
    IN [w EXCEPT !.buffer = [i \in 1..Len(w.buffer) |->
                                IF i > w.offset /\ i <= w.offset + n
                                THEN source[i - w.offset] ELSE w.buffer[i]],
                 !.written = w.written \cup ((w.offset + 1)..(w.offset + n))]

\* buffer.write(value, offset, "ascii") writes what fits and returns its count
writeString(w, value) ==
    IF w.err # NoError THEN w
    ELSE IF w.offset > Len(w.buffer) THEN [w EXCEPT !.err = RuntimeError("RangeError")]
    ELSE LET n == Min(Len(value), Len(w.buffer) - w.offset)
         IN [CopyInto(w, [i \in 1..Len(value) |-> value[i] % 256])
                EXCEPT !.offset = w.offset + n]

\* buffer.writeUInt32LE(value, offset): a value outside 0..2^32-1 or an offset
\* past length-4 is a RangeError (the values of the model stay below 2^31)
writeUInt32LE(w, value) ==
    IF w.err # NoError THEN w
    ELSE IF value < 0 \/ w.offset + 4 > Len(w.buffer)
    THEN [w EXCEPT !.err = RuntimeError("RangeError")]
    ELSE [CopyInto(w, U32Bytes(value)) EXCEPT !.offset = w.offset + 4]

\* source.copy(buffer, offset) copies what fits; the offset moves by the whole length
writeBuffer(w, source) ==
    IF w.err # NoError THEN w
    ELSE [CopyInto(w, source) EXCEPT !.offset = w.offset + Len(source)]


----------------------------------------------------------------------------
(* The encoder (encoder.ts) *)

FILE_SIGNATURE == <<65, 78, 73, 77>>

CURRENT_VERSION == 1

\* a sprite table sized at four bytes a pair
getSpriteInfoSize_FourBytePairs(info) == 4 + Get(info, K.count).v * 4

getSpriteInfoSize(info) == 4 + Get(info, K.count).v * 8

\* a check that stops at the first thing it finds missing
validateEncodeInput_FirstOnly(m, info, data) ==
    IF IsNullish(m) THEN <<"meta">>
    ELSE IF TypeOf(Get(m, K.ratio)) # "number" THEN <<"meta.ratio">>
    ELSE IF ~IsArray(Get(m, K.frame)) THEN <<"meta.frame">>
    ELSE IF IsNullish(info) THEN <<"spriteInfo">>
    ELSE IF TypeOf(Get(info, K.count)) # "number" THEN <<"spriteInfo.count">>
    ELSE IF ~IsArray(Get(info, K.dimensions)) THEN <<"spriteInfo.dimensions">>
    ELSE IF ~IsBuffer(data) THEN <<"webpData">>
    ELSE <<>>

\* the missingFields list validateEncodeInput builds, in the order it pushes
validateEncodeInput(m, info, data) ==
    (IF IsNullish(m) THEN <<"meta">>
     ELSE (IF TypeOf(Get(m, K.ratio)) # "number" THEN <<"meta.ratio">> ELSE <<>>)
          \o (IF ~IsArray(Get(m, K.frame)) THEN <<"meta.frame">> ELSE <<>>))
    \o (IF IsNullish(info) THEN <<"spriteInfo">>
        ELSE (IF TypeOf(Get(info, K.count)) # "number"
              THEN <<"spriteInfo.count">> ELSE <<>>)
             \o (IF ~IsArray(Get(info, K.dimensions))
                 THEN <<"spriteInfo.dimensions">> ELSE <<>>))
    \o (IF ~IsBuffer(data) THEN <<"webpData">> ELSE <<>>)

\* +value as writeUInt32LE takes it: what is no number is NaN and is written as 0
ToNumber(x) == IF x.t = "number" THEN x.v ELSE 0

RECURSIVE writeDimensions(_, _, _)
\* the loop over spriteInfo.dimensions, from element i on
writeDimensions(w, dims, i) ==
    IF i > Len(dims) THEN w
    ELSE IF IsNullish(dims[i]) THEN [w EXCEPT !.err = RuntimeError("TypeError")]
    ELSE writeDimensions(
             writeUInt32LE(writeUInt32LE(w, ToNumber(Get(dims[i], K.width))),
                           ToNumber(Get(dims[i], K.height))),
             dims, i + 1)

\* the writer after encodeH5Animate's last write, metaBuffer being the
\* serialised metadata; fill is the content of the uninitialised allocation
encodeWriter(metaBuffer, info, data, fill) ==
    writeBuffer(
        writeBuffer(
            writeDimensions(
                writeUInt32LE(
                    writeUInt32LE(
                        writeUInt32LE(
                            writeUInt32LE(
                                writeString(
                                    NewWriter(16 + getSpriteInfoSize(info) + Len(data.v)
                                                  + Len(metaBuffer), fill),
                                    FILE_SIGNATURE),
                                CURRENT_VERSION),
                            getSpriteInfoSize(info) + Len(data.v)),
                        Len(metaBuffer)),
                    Get(info, K.count).v),
                Get(info, K.dimensions).v, 1),
            data.v),
        metaBuffer)

\* what encodeH5Animate returns or throws once the writer is done
encodeOutcome(w) == IF w.err # NoError THEN Throw(w.err) ELSE Return(Buf(w.buffer))

\* encodeH5Animate once the validation has passed and the metadata is serialised
encodeValidated(metaJson, info, data, fill) ==
    IF metaJson = Thrown THEN Throw(RuntimeError("TypeError"))
    ELSE encodeOutcome(encodeWriter(Utf8Encode(metaJson), info, data, fill))

\* encodeH5Animate once the validation has found missingFields
encodeChecked(missingFields, m, info, data, fill) ==
    IF missingFields # <<>> THEN Throw(createValidationError(missingFields))
    ELSE encodeValidated(JsonStringify(<<>>, m), info, data, fill)

encodeH5Animate(m, info, data, fill) ==
    encodeChecked(validateEncodeInput(m, info, data), m, info, data, fill)

----------------------------------------------------------------------------
(* The decoder (decoder.ts) *)

\* a parseHeader that accepts the current version only
parseHeader_VersionChecked(bytes, offset) ==
    LET sig == readString(bytes, offset, 4) IN
    IF ~sig.ok THEN sig
    ELSE IF sig.val # FILE_SIGNATURE
    THEN ReadThrow(createInvalidSignatureError(sig.val), sig.offset)
    ELSE LET version == readUInt32LE(bytes, sig.offset) IN
        IF ~version.ok THEN version
        ELSE IF version.val # CURRENT_VERSION
        THEN ReadThrow(H5AnimateError(H5AnimateErrorCode.INVALID_VERSION, Undefined,
                                      <<>>, ""), version.offset)
        ELSE LET imageDataSize == readUInt32LE(bytes, version.offset) IN
            IF ~imageDataSize.ok THEN imageDataSize
            ELSE LET metaDataSize == readUInt32LE(bytes, imageDataSize.offset) IN
                IF ~metaDataSize.ok THEN metaDataSize
                ELSE ReadOk([signature |-> sig.val, version |-> version.val,
                             imageDataSize |-> imageDataSize.val,
                             metaDataSize |-> metaDataSize.val],
                            metaDataSize.offset)

\* parseHeader: the header record, and the parser's offset after it
parseHeader(bytes, offset) ==
    LET sig == readString(bytes, offset, 4) IN
    IF ~sig.ok THEN sig
    ELSE IF sig.val # FILE_SIGNATURE
    THEN ReadThrow(createInvalidSignatureError(sig.val), sig.offset)
    ELSE LET version == readUInt32LE(bytes, sig.offset) IN
        IF ~version.ok THEN version
        ELSE LET imageDataSize == readUInt32LE(bytes, version.offset) IN
            IF ~imageDataSize.ok THEN imageDataSize
            ELSE LET metaDataSize == readUInt32LE(bytes, imageDataSize.offset) IN
                IF ~metaDataSize.ok THEN metaDataSize
                ELSE ReadOk([signature |-> sig.val, version |-> version.val,
                             imageDataSize |-> imageDataSize.val,
                             metaDataSize |-> metaDataSize.val],
                            metaDataSize.offset)

RECURSIVE readDimensions(_, _, _, _)
\* the loop of parseSpriteInfo: `left` pairs still to read, acc those read
readDimensions(bytes, offset, left, acc) ==
    IF left = 0 THEN ReadOk(acc, offset)
    ELSE LET width == readUInt32LE(bytes, offset) IN
        IF ~width.ok THEN width
        ELSE LET height == readUInt32LE(bytes, width.offset) IN
            IF ~height.ok THEN height
            ELSE readDimensions(bytes, height.offset, left - 1,
                     Append(acc, Obj(<<<<K.width, Num(width.val)>>,
                                       <<K.height, Num(height.val)>>>>)))

\* a table read with its pairs in the reverse order
parseSpriteInfo_Reversed(bytes, offset) ==
    LET count == readUInt32LE(bytes, offset) IN
    IF ~count.ok THEN count
    ELSE LET dimensions == readDimensions(bytes, count.offset, count.val, <<>>) IN
        IF ~dimensions.ok THEN dimensions
        ELSE ReadOk(Obj(<<<<K.count, Num(count.val)>>,
                          <<K.dimensions,
                            Arr([i \in 1..Len(dimensions.val) |->
                                    dimensions.val[Len(dimensions.val) + 1 - i]])>>>>),
                    dimensions.offset)

parseSpriteInfo(bytes, offset) ==
    LET count == readUInt32LE(bytes, offset) IN
    IF ~count.ok THEN count
    ELSE LET dimensions == readDimensions(bytes, count.offset, count.val, <<>>) IN
        IF ~dimensions.ok THEN dimensions
        ELSE ReadOk(Obj(<<<<K.count, Num(count.val)>>,
                          <<K.dimensions, Arr(dimensions.val)>>>>),
                    dimensions.offset)

\* the conversion without the defaults of mirror and rotate
convertArrayToObject_NoDefault(objArray) ==
    Obj(<<<<K.index, At(objArray, 0)>>, <<K.x, At(objArray, 1)>>,
          <<K.y, At(objArray, 2)>>, <<K.scale, At(objArray, 3)>>,
          <<K.opacity, At(objArray, 4)>>, <<K.mirror, At(objArray, 5)>>,
          <<K.rotate, At(objArray, 6)>>>>)

convertArrayToObject(objArray) ==
    Obj(<<<<K.index, At(objArray, 0)>>, <<K.x, At(objArray, 1)>>,
          <<K.y, At(objArray, 2)>>, <<K.scale, At(objArray, 3)>>,
          <<K.opacity, At(objArray, 4)>>,
          <<K.mirror, Coalesce(At(objArray, 5), Num(0))>>,
          <<K.rotate, Coalesce(At(objArray, 6), Num(0))>>>>)

\* frame.objects?.map(convertArrayToObject) throws a TypeError
frameObjectsThrows(objects) ==
    /\ ~IsNullish(objects)
    /\ \/ ~IsArray(objects)
       \/ \E i \in 1..Len(objects.v) : IsNullish(objects.v[i])

\* convertArraysToObjects throws a TypeError: rawMeta is null, rawMeta.frame is
\* truthy and has no map, a frame is null, or a frame's objects cannot be mapped
convertArraysToObjectsThrows(rawMeta) ==
    \/ IsNullish(rawMeta)
    \/ /\ Truthy(Get(rawMeta, K.frame))
       /\ \/ ~IsArray(Get(rawMeta, K.frame))
          \/ \E i \in 1..Len(Get(rawMeta, K.frame).v) :
                LET frame == Get(rawMeta, K.frame).v[i]
                IN IsNullish(frame) \/ frameObjectsThrows(Get(frame, K.objects))

convertArraysToObjects(rawMeta) ==
    IF ~Truthy(Get(rawMeta, K.frame)) THEN rawMeta
    ELSE Obj(<<<<K.ratio, Get(rawMeta, K.ratio)>>,
               <<K.frame,
                 Arr([i \in 1..Len(Get(rawMeta, K.frame).v) |->
                        LET frame == Get(rawMeta, K.frame).v[i]
                            objects == Get(frame, K.objects)
                        IN Obj(<<<<K.sound, Get(frame, K.sound)>>,
                                 <<K.objects,
                                   IF IsNullish(objects) THEN Undefined
                                   ELSE Arr([j \in 1..Len(objects.v) |->
                                               convertArrayToObject(objects.v[j])])>>>>)])>>>>)

\* the bundle decodeH5Animate returns
Bundle(m, info, data) == [t |-> "bundle", v |-> [meta |-> m, spriteInfo |-> info, webpData |-> data]]

\* decodeH5Animate from JSON.parse on: rawMeta is the outcome of the parse
decodeMeta(rawMeta, info, data) ==
    IF ~rawMeta.ok THEN Throw(createInvalidMetadataError(<<>>))
    ELSE IF convertArraysToObjectsThrows(rawMeta.val) THEN Throw(RuntimeError("TypeError"))
    ELSE Return(Bundle(convertArraysToObjects(rawMeta.val), info, Buf(data)))

\* a decoder that reports a metadata block it could not read as invalid metadata
decodeMetaBuffer_AsInvalid(metaBuffer, info, data) ==
    IF ~metaBuffer.ok THEN Throw(createInvalidMetadataError(<<>>))
    ELSE decodeMeta(JsonParse(Utf8Decode(metaBuffer.val)), info, data)

\* decodeH5Animate from the read of the metadata block on
decodeMetaBuffer(metaBuffer, info, data) ==
    IF ~metaBuffer.ok THEN Throw(metaBuffer.err)
    ELSE decodeMeta(JsonParse(Utf8Decode(metaBuffer.val)), info, data)

\* decodeH5Animate from the read of the payload on
decodeWebpData(bytes, header, info, data) ==
    IF ~data.ok THEN Throw(data.err)
    ELSE decodeMetaBuffer(readBytes(bytes, data.offset, header.metaDataSize),
                          info, data.val)

\* decodeH5Animate from parseSpriteInfo on
decodeSpriteInfo(bytes, header, info) ==
    IF ~info.ok THEN Throw(info.err)
    ELSE decodeWebpData(bytes, header, info.val,
             readBytes(bytes, info.offset,
                       header.imageDataSize - getSpriteInfoSize(info.val)))

\* decodeH5Animate from parseHeader on
decodeHeader(bytes, header) ==
    IF ~header.ok THEN Throw(header.err)
    ELSE decodeSpriteInfo(bytes, header.val, parseSpriteInfo(bytes, header.offset))

decodeH5Animate(bytes) == decodeHeader(bytes, parseHeader(bytes, 0))


----------------------------------------------------------------------------
(* The validator (validation.ts) *)

\* the first error of a sequence of validation outcomes, NoError when there is none
FirstError(errs) ==
    IF \E i \in 1..Len(errs) : errs[i] # NoError
    THEN errs[CHOOSE i \in 1..Len(errs) :
                  errs[i] # NoError /\ \A j \in 1..(i - 1) : errs[j] = NoError]
    ELSE NoError

\* a report that stops at the first field that is no property of data
MissingOf_FirstOnly(data, fields, names) ==
    IF \A i \in 1..Len(names) : HasKey(data, fields[i]) THEN <<>>
    ELSE <<names[CHOOSE i \in 1..Len(names) :
                     /\ ~HasKey(data, fields[i])
                     /\ \A j \in 1..(i - 1) : HasKey(data, fields[j])]>>

\* the names of `fields` that are not properties of data, in order
MissingOf(data, fields, names) ==
    SelectSeq(names, LAMBDA n : \E i \in 1..Len(names) :
                                    names[i] = n /\ ~HasKey(data, fields[i]))

\* value is a number below (above) n; a comparison with NaN is false
NumBelow(x, n) ==
    \/ x.t = "number" /\ x.v < n
    \/ x.t = "fraction" /\ x.v[1] < n * x.v[2]
NumAbove(x, n) ==
    \/ x.t = "number" /\ x.v > n
    \/ x.t = "fraction" /\ x.v[1] > n * x.v[2]

\* "key" in data && data.key !== undefined && typeof data.key !== "number"
OptionalNotNumber(data, k) ==
    HasKey(data, k) /\ Get(data, k).t # "undefined" /\ TypeOf(Get(data, k)) # "number"

validateSoundMeta(sound, path) ==
    IF sound.t = "null" \/ TypeOf(sound) # "object" THEN createTypeMismatchError(path)
    ELSE IF ~HasKey(sound, K.name) THEN createMissingFieldError(<<"name">>, path)
    ELSE IF TypeOf(Get(sound, K.name)) # "string"
    THEN createTypeMismatchError(path \o ".name")
    ELSE IF OptionalNotNumber(sound, K.volume)
    THEN createTypeMismatchError(path \o ".volume")
    ELSE IF OptionalNotNumber(sound, K.pitch)
    THEN createTypeMismatchError(path \o ".pitch")
    ELSE NoError

validateH5AnimateObject(obj, path) ==
    LET missing == MissingOf(obj, <<K.index, K.x, K.y, K.scale, K.opacity>>,
                             <<"index", "x", "y", "scale", "opacity">>)
    IN
    IF obj.t = "null" \/ TypeOf(obj) # "object" THEN createTypeMismatchError(path)
    ELSE IF missing # <<>> THEN createMissingFieldError(missing, path)
    ELSE IF TypeOf(Get(obj, K.index)) # "number"
    THEN createTypeMismatchError(path \o ".index")
    ELSE IF TypeOf(Get(obj, K.x)) # "number" THEN createTypeMismatchError(path \o ".x")
    ELSE IF TypeOf(Get(obj, K.y)) # "number" THEN createTypeMismatchError(path \o ".y")
    ELSE IF TypeOf(Get(obj, K.scale)) # "number"
    THEN createTypeMismatchError(path \o ".scale")
    ELSE IF TypeOf(Get(obj, K.opacity)) # "number"
    THEN createTypeMismatchError(path \o ".opacity")
    ELSE IF OptionalNotNumber(obj, K.mirror)
    THEN createTypeMismatchError(path \o ".mirror")
    ELSE IF OptionalNotNumber(obj, K.rotate)
    THEN createTypeMismatchError(path \o ".rotate")
    ELSE IF NumBelow(Get(obj, K.index), 0)
    THEN createValueOutOfRangeError(path \o ".index")
    ELSE IF NumBelow(Get(obj, K.opacity), 0) \/ NumAbove(Get(obj, K.opacity), 255)
    THEN createValueOutOfRangeError(path \o ".opacity")
    ELSE NoError

\* path[i] for the zero-based index of element i of a sequence
Indexed(path, i) == path \o "[" \o ToString(i - 1) \o "]"

\* a validation of a frame that looks at the objects before the sounds
validateH5AnimateFrame_ObjectsFirst(frame, path) ==
    LET sound == Get(frame, K.sound)
        objects == Get(frame, K.objects)
        soundError ==
            IF ~(HasKey(frame, K.sound) /\ sound.t # "undefined") THEN NoError
            ELSE IF ~IsArray(sound) THEN createTypeMismatchError(path \o ".sound")
            ELSE FirstError([i \in 1..Len(sound.v) |->
                     validateSoundMeta(sound.v[i], Indexed(path \o ".sound", i))])
        objectsError ==
            IF ~(HasKey(frame, K.objects) /\ objects.t # "undefined") THEN NoError
            ELSE IF ~IsArray(objects) THEN createTypeMismatchError(path \o ".objects")
            ELSE FirstError([i \in 1..Len(objects.v) |->
                     validateH5AnimateObject(objects.v[i], Indexed(path \o ".objects", i))])
    IN
    IF frame.t = "null" \/ TypeOf(frame) # "object" THEN createTypeMismatchError(path)
    ELSE FirstError(<<objectsError, soundError>>)

validateH5AnimateFrame(frame, path) ==
    LET sound == Get(frame, K.sound)
        objects == Get(frame, K.objects)
        soundError ==
            IF ~(HasKey(frame, K.sound) /\ sound.t # "undefined") THEN NoError
            ELSE IF ~IsArray(sound) THEN createTypeMismatchError(path \o ".sound")
            ELSE FirstError([i \in 1..Len(sound.v) |->
                     validateSoundMeta(sound.v[i], Indexed(path \o ".sound", i))])
        objectsError ==
            IF ~(HasKey(frame, K.objects) /\ objects.t # "undefined") THEN NoError
            ELSE IF ~IsArray(objects) THEN createTypeMismatchError(path \o ".objects")
            ELSE FirstError([i \in 1..Len(objects.v) |->
                     validateH5AnimateObject(objects.v[i], Indexed(path \o ".objects", i))])
    IN
    IF frame.t = "null" \/ TypeOf(frame) # "object" THEN createTypeMismatchError(path)
    ELSE FirstError(<<soundError, objectsError>>)

validateH5AnimateMeta(m) ==
    LET missing == MissingOf(m, <<K.ratio, K.frame>>, <<"ratio", "frame">>)
        ratio == Get(m, K.ratio)
        frame == Get(m, K.frame)
    IN
    IF m.t = "null" \/ TypeOf(m) # "object" THEN createTypeMismatchError("meta")
    ELSE IF missing # <<>> THEN createMissingFieldError(missing, "meta")
    ELSE IF TypeOf(ratio) # "number" THEN createTypeMismatchError("meta.ratio")
    ELSE IF ratio.t = "number" /\ ratio.v <= 0
    THEN createValueOutOfRangeError("meta.ratio")
    ELSE IF ~IsArray(frame) THEN createTypeMismatchError("meta.frame")
    ELSE FirstError([i \in 1..Len(frame.v) |->
             validateH5AnimateFrame(frame.v[i], Indexed("meta.frame", i))])

\* a validation of the types of width and height only
validateSpriteDimension_TypesOnly(dimension, path) ==
    IF dimension.t = "null" \/ TypeOf(dimension) # "object"
    THEN createTypeMismatchError(path)
    ELSE IF ~(HasKey(dimension, K.width) /\ HasKey(dimension, K.height))
    THEN createMissingFieldError(<<"width", "height">>, path)
    ELSE IF TypeOf(Get(dimension, K.width)) # "number"
    THEN createTypeMismatchError(path \o ".width")
    ELSE IF TypeOf(Get(dimension, K.height)) # "number"
    THEN createTypeMismatchError(path \o ".height")
    ELSE NoError

validateSpriteDimension(dimension, path) ==
    LET missing == MissingOf(dimension, <<K.width, K.height>>, <<"width", "height">>)
        width == Get(dimension, K.width)
        height == Get(dimension, K.height)
    IN
    IF dimension.t = "null" \/ TypeOf(dimension) # "object"
    THEN createTypeMismatchError(path)
    ELSE IF missing # <<>> THEN createMissingFieldError(missing, path)
    ELSE IF TypeOf(width) # "number" THEN createTypeMismatchError(path \o ".width")
    ELSE IF TypeOf(height) # "number" THEN createTypeMismatchError(path \o ".height")
    ELSE IF width.t = "number" /\ width.v <= 0
    THEN createValueOutOfRangeError(path \o ".width")
    ELSE IF height.t = "number" /\ height.v <= 0
    THEN createValueOutOfRangeError(path \o ".height")
    ELSE NoError

validateSpriteInfo(info) ==
    LET missing == MissingOf(info, <<K.count, K.dimensions>>, <<"count", "dimensions">>)
        count == Get(info, K.count)
        dimensions == Get(info, K.dimensions)
    IN
    IF info.t = "null" \/ TypeOf(info) # "object" THEN createTypeMismatchError("spriteInfo")
    ELSE IF missing # <<>> THEN createMissingFieldError(missing, "spriteInfo")
    ELSE IF TypeOf(count) # "number" THEN createTypeMismatchError("spriteInfo.count")
    ELSE IF NumBelow(count, 0) THEN createValueOutOfRangeError("spriteInfo.count")
    ELSE IF ~IsArray(dimensions) THEN createTypeMismatchError("spriteInfo.dimensions")
    ELSE FirstError([i \in 1..Len(dimensions.v) |->
             validateSpriteDimension(dimensions.v[i],
                                     Indexed("spriteInfo.dimensions", i))])

\* the error validateEncodeInputComplete throws, NoError when it returns
validateEncodeInputComplete(m, info, data) ==
    IF validateH5AnimateMeta(m) # NoError THEN validateH5AnimateMeta(m)
    ELSE IF validateSpriteInfo(info) # NoError THEN validateSpriteInfo(info)
    ELSE IF ~IsBuffer(data) THEN createValidationError(<<>>)
    ELSE IF Len(data.v) = 0 THEN createValidationError(<<>>)
    ELSE NoError


----------------------------------------------------------------------------
(* The arguments the callers pass (types.ts) *)

\* most frames of a metadata, objects of a frame, sprites of a table, payload bytes
MaxFrames == 2
MaxObjects == 1
MaxSprites == 2
MaxPayload == 3

\* the n elements of the catalogue from its k-th on, cyclically
Window(cat, k, n) == [i \in 1..n |-> cat[((k + i - 2) % Len(cat)) + 1]]

\* catalogue k = 1..Len(cat) in every length n = 1..maxLen, in a fixed order
WindowList(cat, maxLen) ==
    [j \in 1..(maxLen * Len(cat)) |->
        Window(cat, ((j - 1) % Len(cat)) + 1, ((j - 1) \div Len(cat)) + 1)]

Range(f) == {f[i] : i \in DOMAIN f}

\* an H5AnimateObject; mirror and rotate are left out when Undefined
H5AnimateObject(index, x, y, scale, opacity, mirror, rotate) ==
    Obj(<<<<K.index, index>>, <<K.x, x>>, <<K.y, y>>, <<K.scale, scale>>,
          <<K.opacity, opacity>>>>
        \o (IF mirror.t = "undefined" THEN <<>> ELSE <<<<K.mirror, mirror>>>>)
        \o (IF rotate.t = "undefined" THEN <<>> ELSE <<<<K.rotate, rotate>>>>))

\* objects a caller may pass: a full one, one without mirror and rotate, and
\* three the validator rejects (index < 0, opacity > 255, x no number)
ObjectCatalogue ==
    <<H5AnimateObject(Num(1), Num(10), Num(-20), Num(100), Num(255), Num(1), Num(90)),
      H5AnimateObject(Num(0), Num(0), Num(0), Num(50), Num(128), Undefined, Undefined),
      H5AnimateObject(Num(-1), Num(5), Num(5), Num(100), Num(255), Num(0), Num(0)),
      H5AnimateObject(Num(2), Num(5), Num(5), Num(100), Num(256), Num(0), Num(0)),
      H5AnimateObject(Num(3), Str(<<97>>), Num(5), Num(100), Num(0), Num(0), Num(0))>>

\* a SoundMeta whose name is not ASCII
SoundMeta == Obj(<<<<K.name, Str(<<233>>)>>, <<K.volume, Num(80)>>>>)

\* an H5AnimateFrame; sound and objects are left out when Undefined
H5AnimateFrame(sound, objects) ==
    Obj((IF sound.t = "undefined" THEN <<>> ELSE <<<<K.sound, sound>>>>)
        \o (IF objects.t = "undefined" THEN <<>> ELSE <<<<K.objects, objects>>>>))

ObjectsCatalogue ==
    <<Undefined, Arr(<<>>)>>
    \o [j \in 1..(MaxObjects * Len(ObjectCatalogue)) |->
           Arr(WindowList(ObjectCatalogue, MaxObjects)[j])]

FrameCatalogue ==
    [j \in 1..(2 * Len(ObjectsCatalogue)) |->
        H5AnimateFrame(<<Undefined, Arr(<<SoundMeta>>)>>[((j - 1) % 2) + 1],
                       ObjectsCatalogue[((j - 1) \div 2) + 1])]

H5AnimateMeta(ratio, frame) == Obj(<<<<K.ratio, ratio>>, <<K.frame, Arr(frame)>>>>)

\* the ratios: a usual one, the boundary the validator rejects, and NaN
Ratios == {Num(2), Num(0), NaN}

MetaSet ==
    {H5AnimateMeta(ratio, frame) :
        ratio \in Ratios,
        frame \in {<<>>} \cup Range(WindowList(FrameCatalogue, MaxFrames))}

SpriteDimension(width, height) == Obj(<<<<K.width, Num(width)>>, <<K.height, Num(height)>>>>)

\* 538976288 is 0x20202020: four spaces when read as text
DimensionCatalogue ==
    <<SpriteDimension(2, 3), SpriteDimension(538976288, 538976288),
      SpriteDimension(0, 1)>>

SpriteInfo(count, dimensions) ==
    Obj(<<<<K.count, Num(count)>>, <<K.dimensions, Arr(dimensions)>>>>)

\* sprite tables, the ones whose count is not the number of dimensions included:
\* neither the type nor validateEncodeInput ties the two
SpriteInfoSet ==
    {SpriteInfo(count, dimensions) :
        count \in 0..MaxSprites,
        dimensions \in {<<>>} \cup Range(WindowList(DimensionCatalogue, MaxSprites))}

\* a payload of n bytes
Payload(n) == Buf([i \in 1..n |-> 100 + i])

PayloadSet == {Payload(n) : n \in 0..MaxPayload}

StdMeta == H5AnimateMeta(Num(2), <<FrameCatalogue[5]>>)
StdSpriteInfo == SpriteInfo(1, <<DimensionCatalogue[1]>>)
StdPayload == Payload(2)

\* arguments that are not of the declared types
MalformedMetas ==
    {Null, Obj(<<<<K.frame, Arr(<<>>)>>>>), Obj(<<<<K.ratio, Num(2)>>>>),
     Obj(<<<<K.ratio, Str(<<50>>)>>, <<K.frame, Arr(<<>>)>>>>)}

MalformedSpriteInfos ==
    {Null, Obj(<<<<K.dimensions, Arr(<<>>)>>>>), Obj(<<<<K.count, Num(0)>>>>)}

\* sounds the validator rejects: a volume that is no number, a name that is no
\* string
SoundBadVolume == Obj(<<<<K.name, Str(<<97>>)>>, <<K.volume, Str(<<56>>)>>>>)
SoundBadName == Obj(<<<<K.name, Num(1)>>>>)

\* an object breaking three rules at once: index < 0, y and mirror no numbers
ObjectBadTwice ==
    H5AnimateObject(Num(-1), Num(5), Str(<<97>>), Num(100), Num(255), Str(<<98>>), Num(0))

\* an object whose rotate is no number
ObjectBadRotate ==
    H5AnimateObject(Num(1), Num(5), Num(5), Num(100), Num(255), Num(0), Str(<<99>>))

\* metadata whose violations lie at chosen places: in the second object of a
\* frame, in the second sound of the second frame, in two frames at once, in a
\* sound and an object of the same frame
ViolationMetas ==
    {H5AnimateMeta(Num(2), frame) : frame \in
        {<<H5AnimateFrame(Undefined, Arr(<<ObjectCatalogue[1], ObjectCatalogue[4]>>))>>,
         <<FrameCatalogue[5],
           H5AnimateFrame(Arr(<<SoundMeta, SoundBadVolume>>), Arr(<<ObjectCatalogue[3]>>))>>,
         <<H5AnimateFrame(Undefined, Arr(<<ObjectCatalogue[5], ObjectCatalogue[3]>>)),
           H5AnimateFrame(Undefined, Arr(<<ObjectCatalogue[4]>>))>>,
         <<H5AnimateFrame(Undefined, Arr(<<ObjectBadTwice>>))>>,
         <<H5AnimateFrame(Arr(<<SoundBadName>>), Undefined)>>,
         <<H5AnimateFrame(Arr(<<SoundMeta>>), Arr(<<ObjectCatalogue[2], ObjectBadRotate>>)),
           H5AnimateFrame(Arr(<<SoundBadName>>), Undefined)>>}}

\* the argument triples of the model: every metadata with the usual sprite
\* table and payload, every sprite table and payload with the usual metadata,
\* and the malformed arguments in every combination
Inputs ==
    (MetaSet \X {StdSpriteInfo} \X {StdPayload})
    \cup (ViolationMetas \X {StdSpriteInfo} \X {StdPayload})
    \cup ({StdMeta} \X SpriteInfoSet \X PayloadSet)
    \cup ((MalformedMetas \cup {StdMeta}) \X (MalformedSpriteInfos \cup {StdSpriteInfo})
          \X {Null, StdPayload})


----------------------------------------------------------------------------
(* Files that reach the decoder other than as the encoder wrote them *)

\* bytes with the four bytes at offset replaced by value, little-endian
SetU32(bytes, offset, value) ==
    [i \in 1..Len(bytes) |->
        IF i > offset /\ i <= offset + 4 THEN U32Bytes(value)[i - offset] ELSE bytes[i]]

\* metadata blocks no encoder writes: JSON values of other shapes, objects kept
\* in the compact array form with five and with seven elements, and text that
\* is no JSON
ForeignMetaTexts ==
    {JsonText(v) : v \in
        {Null, Num(1), Obj(<<<<K.ratio, Num(2)>>>>), Obj(<<<<K.frame, Num(1)>>>>),
         H5AnimateMeta(Num(2), <<Null>>),
         H5AnimateMeta(Num(2),
             <<H5AnimateFrame(Undefined,
                   Arr(<<Arr(<<Num(1), Num(2), Num(3), Num(4), Num(5)>>)>>))>>),
         H5AnimateMeta(Num(2),
             <<H5AnimateFrame(Undefined,
                   Arr(<<Arr(<<Num(1), Num(2), Num(3), Num(4), Num(5), Num(1),
                               Num(90)>>)>>))>>)}}
    \cup {<<123>>}

NoDamage == [kind |-> "none", n |-> 0, text |-> <<>>]

\* what may happen to a file of at least 16 bytes: a byte of the signature or
\* the version is changed, a size field of the header is changed, the start of
\* the metadata is declared n bytes early, the file is cut to n bytes, or the
\* metadata block is replaced
Damages(bytes) ==
    {[kind |-> "signature", n |-> b, text |-> <<>>] : b \in {66, 193}}
    \cup {[kind |-> "version", n |-> 2, text |-> <<>>]}
    \cup {[kind |-> "imageDataSize", n |-> v, text |-> <<>>] : v \in {0, 4, 1000}}
    \cup {[kind |-> "metaDataSize", n |-> U32At(bytes, 12) + d, text |-> <<>>] :
             d \in IF U32At(bytes, 12) > 0 THEN {-1, 1} ELSE {1}}
    \cup {[kind |-> "boundary", n |-> 8, text |-> <<>>] : d \in
             IF U32At(bytes, 8) >= 8 THEN {8} ELSE {}}
    \cup {[kind |-> "cut", n |-> v, text |-> <<>>] : v \in {3, 18, Len(bytes) - 1}}
    \cup {[kind |-> "metadata", n |-> 0, text |-> t] : t \in ForeignMetaTexts}

Damaged(bytes, d) ==
    CASE d.kind = "signature" -> [bytes EXCEPT ![1] = d.n]
      [] d.kind = "version" -> SetU32(bytes, 4, d.n)
      [] d.kind = "imageDataSize" -> SetU32(bytes, 8, d.n)
      [] d.kind = "metaDataSize" -> SetU32(bytes, 12, d.n)
      [] d.kind = "boundary" ->
            SetU32(SetU32(bytes, 8, U32At(bytes, 8) - d.n), 12, U32At(bytes, 12) + d.n)
      [] d.kind = "cut" -> SubSeq(bytes, 1, Min(d.n, Len(bytes)))
      [] d.kind = "metadata" ->
            LET block == Utf8Encode(d.text)
                kept == SubSeq(bytes, 1, Min(16 + U32At(bytes, 8), Len(bytes)))
            IN SetU32(kept, 12, Len(block)) \o block
      [] OTHER -> bytes

----------------------------------------------------------------------------
(* The callers: validate, encode, decode, encode again, decode again *)

\* what Buffer.allocUnsafe may hold where the encoder writes nothing
Fill == {0, 32}

\* the encode/decode script has not started
CodecIdle ==
    /\ meta = Undefined
    /\ spriteInfo = Undefined
    /\ webpData = Undefined
    /\ checked = NotCalled
    /\ encoded = NotCalled
    /\ damage = NoDamage
    /\ buffer = <<>>
    /\ decoded = NotCalled
    /\ reencoded = NotCalled
    /\ redecoded = NotCalled

\* the converter script has not started
ConverterIdle ==
    /\ legacyData = Undefined
    /\ legacyChecked = <<NotCalled, NotCalled>>
    /\ metaConverted = NotCalled
    /\ converted = NotCalled
    /\ steps = <<>>

\* the sprite sheet script has not started
SheetIdle ==
    /\ images = <<>>
    /\ packed = NotCalled
    /\ request = [frameIndex |-> 0, height |-> 0, width |-> Undefined, frameCount |-> Undefined]
    /\ extracted = NotCalled
    /\ allExtracted = NotCalled

\* no BinaryParser has been made
ParserIdle ==
    /\ parser = [buffer |-> <<>>, offset |-> 0]
    /\ lastRead = [op |-> "none", length |-> 0, at |-> 0, nth |-> 0, out |-> NotCalled]
    /\ consumed = 0

Init ==
    /\ \E in \in Inputs :
          /\ meta = in[1]
          /\ spriteInfo = in[2]
          /\ webpData = in[3]
    /\ pc = "start"
    /\ checked = NotCalled
    /\ encoded = NotCalled
    /\ damage = NoDamage
    /\ buffer = <<>>
    /\ decoded = NotCalled
    /\ reencoded = NotCalled
    /\ redecoded = NotCalled
    /\ ConverterIdle
    /\ SheetIdle
    /\ ParserIdle
    /\ calls = <<>>

\* validateEncodeInputComplete(meta, spriteInfo, webpData)
Validate ==
    /\ pc = "start"
    /\ LET err == validateEncodeInputComplete(meta, spriteInfo, webpData)
       IN checked' = IF err = NoError THEN Return(Undefined) ELSE Throw(err)
    /\ pc' = "validated"
    /\ UNCHANGED <<meta, spriteInfo, webpData, encoded, damage, buffer, decoded,
                   reencoded, redecoded>>
    /\ UNCHANGED <<converterVars, sheetVars, parserVars, calls>>

\* encodeH5Animate(meta, spriteInfo, webpData); the file is what it returns
Encode ==
    /\ pc = "validated"
    /\ \E fill \in Fill :
          /\ encoded' = encodeH5Animate(meta, spriteInfo, webpData, fill)
          /\ buffer' = IF encoded'.ok THEN encoded'.val.v ELSE <<>>
          /\ pc' = IF encoded'.ok THEN "encoded" ELSE "done"
    /\ UNCHANGED <<meta, spriteInfo, webpData, checked, damage, decoded, reencoded,
                   redecoded>>
    /\ UNCHANGED <<converterVars, sheetVars, parserVars, calls>>

\* the file is damaged before it is decoded
Damage ==
    /\ pc = "encoded"
    /\ \E d \in Damages(buffer) :
          /\ damage' = d
          /\ buffer' = Damaged(buffer, d)
    /\ pc' = "damaged"
    /\ UNCHANGED <<meta, spriteInfo, webpData, checked, encoded, decoded, reencoded,
                   redecoded>>
    /\ UNCHANGED <<converterVars, sheetVars, parserVars, calls>>

\* decodeH5Animate(buffer)
Decode ==
    /\ pc \in {"encoded", "damaged"}
    /\ decoded' = decodeH5Animate(buffer)
    /\ pc' = IF decoded'.ok THEN "decoded" ELSE "done"
    /\ UNCHANGED <<meta, spriteInfo, webpData, checked, encoded, damage, buffer,
                   reencoded, redecoded>>
    /\ UNCHANGED <<converterVars, sheetVars, parserVars, calls>>

\* encodeH5Animate on the three parts of the decoded bundle
ReEncode ==
    /\ pc = "decoded"
    /\ \E fill \in Fill :
          reencoded' = encodeH5Animate(decoded.val.v.meta, decoded.val.v.spriteInfo,
                                       decoded.val.v.webpData, fill)
    /\ pc' = IF reencoded'.ok THEN "reencoded" ELSE "done"
    /\ UNCHANGED <<meta, spriteInfo, webpData, checked, encoded, damage, buffer,
                   decoded, redecoded>>
    /\ UNCHANGED <<converterVars, sheetVars, parserVars, calls>>

\* decodeH5Animate on the re-encoded file
ReDecode ==
    /\ pc = "reencoded"
    /\ redecoded' = decodeH5Animate(reencoded.val.v)
    /\ pc' = "done"
    /\ UNCHANGED <<meta, spriteInfo, webpData, checked, encoded, damage, buffer,
                   decoded, reencoded>>
    /\ UNCHANGED <<converterVars, sheetVars, parserVars, calls>>

Next == Validate \/ Encode \/ Damage \/ Decode \/ ReEncode \/ ReDecode

Spec == Init /\ [][Next]_vars


----------------------------------------------------------------------------
(* Vocabulary of the properties *)

\* the call has been made
Called(outcome) == outcome.err.name # "not called"

\* the call threw an H5AnimateError with the given code
ThrewCode(outcome, code) ==
    ~outcome.ok /\ outcome.err.name = "H5AnimateError" /\ outcome.err.code = code

\* the names of the properties of an object that are not undefined
DefinedKeys(o) == {o.v[i][1] : i \in {j \in 1..Len(o.v) : Get(o, o.v[j][1]).t # "undefined"}}

RECURSIVE StructEq(_, _)
\* structural equality of two JavaScript values: properties in any order, an
\* undefined property being the same as none
StructEq(a, b) ==
    IF a.t # b.t THEN FALSE
    ELSE IF a.t = "array"
    THEN Len(a.v) = Len(b.v) /\ \A i \in 1..Len(a.v) : StructEq(a.v[i], b.v[i])
    ELSE IF a.t = "object"
    THEN /\ DefinedKeys(a) = DefinedKeys(b)
         /\ \A k \in DefinedKeys(a) : StructEq(Get(a, k), Get(b, k))
    ELSE a.v = b.v

\* an object in keyed form, absent mirror and rotate being 0
KeyedObject(o) ==
    H5AnimateObject(Get(o, K.index), Get(o, K.x), Get(o, K.y), Get(o, K.scale),
                    Get(o, K.opacity), Coalesce(Get(o, K.mirror), Num(0)),
                    Coalesce(Get(o, K.rotate), Num(0)))

KeyedObjects(objects) ==
    IF objects.t = "undefined" THEN Undefined
    ELSE Arr([j \in 1..Len(objects.v) |-> KeyedObject(objects.v[j])])

\* a metadata with every object in keyed form
KeyedMeta(m) ==
    H5AnimateMeta(Get(m, K.ratio),
        [i \in 1..Len(Get(m, K.frame).v) |->
            H5AnimateFrame(Get(Get(m, K.frame).v[i], K.sound),
                           KeyedObjects(Get(Get(m, K.frame).v[i], K.objects)))])

\* the file that was decoded is the one encodeH5Animate returned
DecodedAsEncoded == Called(decoded) /\ damage.kind = "none"

\* C1 (as claimed): whenever encodeH5Animate accepts its arguments, decoding the
\* buffer it returns succeeds and gives back the metadata (objects keyed, absent
\* mirror and rotate as 0), the sprite table and the payload that were passed
C1_RoundTrip ==
    DecodedAsEncoded =>
        /\ decoded.ok
        /\ StructEq(decoded.val.v.meta, KeyedMeta(meta))
        /\ StructEq(decoded.val.v.spriteInfo, spriteInfo)
        /\ decoded.val.v.webpData = webpData


\* C2: in every buffer encodeH5Animate returns, the u32 at offset 8 is
\* 4 + 8 * spriteInfo.count + the payload's length, and the u32 at offset 12 is
\* the number of bytes of the UTF-8 JSON text of the metadata
C2_SizeInvariant ==
    encoded.ok =>
        /\ U32At(encoded.val.v, 8)
               = 4 + 8 * Get(spriteInfo, K.count).v + Len(webpData.v)
        /\ U32At(encoded.val.v, 12) = Len(Utf8Encode(JsonStringify(<<>>, meta)))

\* C2's case: a buffer was returned for a table of two sprites, a payload of
\* three bytes, and (the usual) metadata
C2_Witness ==
    /\ encoded.ok
    /\ Get(spriteInfo, K.count).v = 2
    /\ Len(webpData.v) = 3
    /\ U32At(encoded.val.v, 8) = 23
    /\ U32At(encoded.val.v, 12) > 0

\* the bytes of a buffer from offset `from` up to offset `to`, `to` excluded
Between(bytes, from, to) == SubSeq(bytes, Min(from, Len(bytes)) + 1, Min(to, Len(bytes)))

\* pair i (from 1) of the sprite table is written where the layout puts it
PairAt(bytes, i, dimension) ==
    /\ Len(bytes) >= 20 + 8 * i
    /\ U32At(bytes, 20 + 8 * (i - 1)) = Get(dimension, K.width).v
    /\ U32At(bytes, 24 + 8 * (i - 1)) = Get(dimension, K.height).v

\* C3 (as claimed): every buffer encodeH5Animate returns starts with "ANIM" and
\* version 1, holds the count at offset 16 and pair i at 20 + 8i, the payload in
\* [16 + spriteTableSize, 16 + imageDataSize) and the metadata from there to
\* 16 + imageDataSize + metaDataSize, which is the end of the buffer
C3_ByteLayout ==
    encoded.ok =>
        /\ Between(encoded.val.v, 0, 4) = FILE_SIGNATURE
        /\ U32At(encoded.val.v, 4) = CURRENT_VERSION
        /\ U32At(encoded.val.v, 16) = Get(spriteInfo, K.count).v
        /\ \A i \in 1..Len(Get(spriteInfo, K.dimensions).v) :
              PairAt(encoded.val.v, i, Get(spriteInfo, K.dimensions).v[i])
        /\ Between(encoded.val.v, 16 + getSpriteInfoSize(spriteInfo),
                   16 + U32At(encoded.val.v, 8)) = webpData.v
        /\ Between(encoded.val.v, 16 + U32At(encoded.val.v, 8),
                   16 + U32At(encoded.val.v, 8) + U32At(encoded.val.v, 12))
               = Utf8Encode(JsonStringify(<<>>, meta))
        /\ Len(encoded.val.v) = 16 + U32At(encoded.val.v, 8) + U32At(encoded.val.v, 12)

\* C4 (as claimed): decodeH5Animate on a buffer whose first four bytes are not
\* the bytes of "ANIM" throws INVALID_SIGNATURE with position 0 and returns nothing
C4_SignatureRejection ==
    (Called(decoded) /\ Between(buffer, 0, 4) # FILE_SIGNATURE) =>
        /\ ThrewCode(decoded, H5AnimateErrorCode.INVALID_SIGNATURE)
        /\ decoded.err.position = Num(0)

\* decodeH5Animate gets past the header and the sprite table of these bytes
TableRead(bytes) ==
    /\ Len(bytes) >= 20
    /\ AsciiDecode(Between(bytes, 0, 4)) = FILE_SIGNATURE
    /\ Len(bytes) >= 20 + 8 * U32At(bytes, 16)

\* header.imageDataSize - spriteTableSize, and the bytes left after the table
PayloadSize(bytes) == U32At(bytes, 8) - (4 + 8 * U32At(bytes, 16))
Remaining(bytes) == Len(bytes) - (20 + 8 * U32At(bytes, 16))

SizeErrorCodes ==
    {H5AnimateErrorCode.CORRUPTED_HEADER, H5AnimateErrorCode.FILE_TRUNCATED,
     H5AnimateErrorCode.SIZE_MISMATCH, H5AnimateErrorCode.INVALID_IMAGE_DATA}

\* C5 (as claimed): when the payload size the header implies is negative or
\* more than the bytes left after the sprite table, decodeH5Animate throws a
\* size or truncation error and returns nothing
C5_PayloadSizeChecked ==
    (/\ Called(decoded)
     /\ TableRead(buffer)
     /\ (PayloadSize(buffer) < 0 \/ PayloadSize(buffer) > Remaining(buffer))) =>
        /\ ~decoded.ok
        /\ decoded.err.name = "H5AnimateError"
        /\ decoded.err.code \in SizeErrorCodes

\* a bundle whose metadata is an object with a number ratio and a frame array
CompleteBundle(bundle) ==
    /\ bundle.v.meta.t = "object"
    /\ Get(bundle.v.meta, K.ratio).t \in {"number", "nan"}
    /\ IsArray(Get(bundle.v.meta, K.frame))
    /\ bundle.v.spriteInfo.t = "object"
    /\ IsBuffer(bundle.v.webpData)

\* C6 (as claimed): decodeH5Animate returns a complete bundle or throws an
\* H5AnimateError with a code of the taxonomy, whatever the bytes
C6_TypedErrorOrBundle ==
    Called(decoded) =>
        IF decoded.ok THEN CompleteBundle(decoded.val)
        ELSE /\ decoded.err.name = "H5AnimateError"
             /\ decoded.err.code \in {H5AnimateErrorCode[k] : k \in DOMAIN H5AnimateErrorCode}


\* the metadata block of a file as JSON.parse reads it
StoredMeta(bytes) ==
    JsonParse(Utf8Decode(Between(bytes, 16 + U32At(bytes, 8),
                                 16 + U32At(bytes, 8) + U32At(bytes, 12))))

\* the compact arrays of frame i of a stored metadata, none when the frame has none
StoredObjects(raw, i) ==
    IF raw.t = "object" /\ IsArray(Get(raw, K.frame))
       /\ i <= Len(Get(raw, K.frame).v)
       /\ IsArray(Get(Get(raw, K.frame).v[i], K.objects))
    THEN Get(Get(raw, K.frame).v[i], K.objects).v
    ELSE <<>>

\* a stored array of five or seven numbers
CompactArray(a) ==
    /\ a.t = "array"
    /\ Len(a.v) \in {5, 7}
    /\ \A k \in 1..Len(a.v) : a.v[k].t = "number"

\* the keyed object carries the array's positions 0..4, and its positions 5 and
\* 6 as mirror and rotate, 0 standing for each when the array stops at 5
DecodedFrom(a, o) ==
    /\ Get(o, K.index) = a.v[1]
    /\ Get(o, K.x) = a.v[2]
    /\ Get(o, K.y) = a.v[3]
    /\ Get(o, K.scale) = a.v[4]
    /\ Get(o, K.opacity) = a.v[5]
    /\ Get(o, K.mirror) = IF Len(a.v) = 5 THEN Num(0) ELSE a.v[6]
    /\ Get(o, K.rotate) = IF Len(a.v) = 5 THEN Num(0) ELSE a.v[7]

CompactArraysDecoded(raw, m) ==
    \A i \in 1..Len(Get(m, K.frame).v) :
        \A j \in 1..Len(StoredObjects(raw, i)) :
            CompactArray(StoredObjects(raw, i)[j]) =>
                DecodedFrom(StoredObjects(raw, i)[j],
                            Get(Get(m, K.frame).v[i], K.objects).v[j])

\* C7: when decodeH5Animate returns, every object stored as an array of five
\* numbers is decoded with those as index, x, y, scale and opacity and with
\* mirror = 0 and rotate = 0, and every object stored as an array of seven
\* numbers with its elements 5 and 6 as mirror and rotate
C7_CompactArrayDefault ==
    (decoded.ok /\ IsArray(Get(decoded.val.v.meta, K.frame))) =>
        CompactArraysDecoded(StoredMeta(buffer).val, decoded.val.v.meta)

\* C7's case: a file whose only object is stored as [1,2,3,4,5] was decoded, and
\* the object came out with opacity 5, mirror 0 and rotate 0
C7_Witness ==
    /\ decoded.ok
    /\ damage.kind = "metadata"
    /\ Len(StoredObjects(StoredMeta(buffer).val, 1)) = 1
    /\ Len(StoredObjects(StoredMeta(buffer).val, 1)[1].v) = 5
    /\ Get(Get(Get(decoded.val.v.meta, K.frame).v[1], K.objects).v[1], K.opacity) = Num(5)
    /\ Get(Get(Get(decoded.val.v.meta, K.frame).v[1], K.objects).v[1], K.mirror) = Num(0)
    /\ Get(Get(Get(decoded.val.v.meta, K.frame).v[1], K.objects).v[1], K.rotate) = Num(0)

\* the top-level arguments that are null
AbsentInputs ==
    (IF IsNullish(meta) THEN {"meta"} ELSE {})
    \cup (IF IsNullish(spriteInfo) THEN {"spriteInfo"} ELSE {})
    \cup (IF IsNullish(webpData) THEN {"webpData"} ELSE {})

\* C8: encodeH5Animate called with absent top-level arguments throws one
\* VALIDATION_ERROR whose missingFields names every absent argument, and gives
\* no buffer
C8_ValidationAggregation ==
    (Called(encoded) /\ AbsentInputs # {}) =>
        /\ ThrewCode(encoded, H5AnimateErrorCode.VALIDATION_ERROR)
        /\ AbsentInputs \subseteq Range(encoded.err.missingFields)
        /\ buffer = <<>>

\* C8's case: all three arguments were null and the error names the three
C8_Witness ==
    /\ Called(encoded)
    /\ AbsentInputs = {"meta", "spriteInfo", "webpData"}
    /\ ~encoded.ok
    /\ encoded.err.missingFields = <<"meta", "spriteInfo", "webpData">>


\* the field paths of an object's violations of the validator's rules: a
\* required field that is no number, index < 0, opacity outside [0, 255]
ObjectViolations(o, path) ==
    {path \o f[2] : f \in {g \in {<<K.index, ".index">>, <<K.x, ".x">>, <<K.y, ".y">>,
                                  <<K.scale, ".scale">>, <<K.opacity, ".opacity">>} :
                              TypeOf(Get(o, g[1])) # "number"}}
    \cup {path \o f[2] : f \in {g \in {<<K.mirror, ".mirror">>, <<K.rotate, ".rotate">>} :
                                  OptionalNotNumber(o, g[1])}}
    \cup (IF NumBelow(Get(o, K.index), 0) THEN {path \o ".index"} ELSE {})
    \cup (IF NumBelow(Get(o, K.opacity), 0) \/ NumAbove(Get(o, K.opacity), 255)
          THEN {path \o ".opacity"} ELSE {})

\* the field paths of a sound's violations: a name that is no string, a volume
\* or pitch that is no number
SoundViolations(sound, path) ==
    (IF TypeOf(Get(sound, K.name)) # "string" THEN {path \o ".name"} ELSE {})
    \cup {path \o f[2] : f \in {g \in {<<K.volume, ".volume">>, <<K.pitch, ".pitch">>} :
                                  OptionalNotNumber(sound, g[1])}}

FrameViolations(frame, path) ==
    (IF ~IsArray(Get(frame, K.sound)) THEN {}
     ELSE UNION {SoundViolations(Get(frame, K.sound).v[k], Indexed(path \o ".sound", k)) :
                    k \in 1..Len(Get(frame, K.sound).v)})
    \cup (IF ~IsArray(Get(frame, K.objects)) THEN {}
          ELSE UNION {ObjectViolations(Get(frame, K.objects).v[j],
                                       Indexed(path \o ".objects", j)) :
                         j \in 1..Len(Get(frame, K.objects).v)})

\* the field paths of the violations in a metadata and a sprite table that
\* validateEncodeInput lets through: ratio <= 0, the objects' violations, a
\* width or height <= 0
Violations(m, info) ==
    (IF NumBelow(Get(m, K.ratio), 1) THEN {"meta.ratio"} ELSE {})
    \cup UNION {FrameViolations(Get(m, K.frame).v[i], Indexed("meta.frame", i)) :
                   i \in 1..Len(Get(m, K.frame).v)}
    \cup UNION {(IF NumBelow(Get(Get(info, K.dimensions).v[k], K.width), 1)
                 THEN {Indexed("spriteInfo.dimensions", k) \o ".width"} ELSE {})
                \cup (IF NumBelow(Get(Get(info, K.dimensions).v[k], K.height), 1)
                      THEN {Indexed("spriteInfo.dimensions", k) \o ".height"} ELSE {}) :
                   k \in 1..Len(Get(info, K.dimensions).v)}

\* the arguments pass encodeH5Animate's own check and break a rule of the validator
RuleBroken ==
    /\ validateEncodeInput(meta, spriteInfo, webpData) = <<>>
    /\ Violations(meta, spriteInfo) # {}

C10_ReEncodeConsistency ==
    (pc = "done" /\ damage.kind = "none" /\ decoded.ok) =>
        /\ reencoded.ok
        /\ redecoded.ok
        /\ StructEq(redecoded.val.v.meta, decoded.val.v.meta)
        /\ StructEq(redecoded.val.v.spriteInfo, decoded.val.v.spriteInfo)
        /\ redecoded.val.v.webpData = decoded.val.v.webpData

----------------------------------------------------------------------------
(* The pixel codec (sharp).  An image file of the model is a format byte (80  *)
(* for PNG, 87 for WebP), the width, the height, and one byte for each row of *)
(* pixels, 0 being a transparent row.                                         *)

IsImage(bytes) ==
    /\ Len(bytes) >= 3
    /\ bytes[1] \in {80, 87}
    /\ bytes[2] >= 1
    /\ bytes[3] >= 1
    /\ Len(bytes) = 3 + bytes[3]

\* one call to the codec (or to the encoder): what was asked, on which input,
\* for which region
Call(op, input, left, top, width, height) ==
    [op |-> op, input |-> input, left |-> left, top |-> top, width |-> width,
     height |-> height]

\* sharp(input).metadata(): the measured width and height; rejects what is no image
sharpMetadata(input) ==
    IF IsImage(input) THEN Return([width |-> input[2], height |-> input[3]])
    ELSE Throw(RuntimeError("Error"))

\* sharp(input).webp(options).toBuffer(): the same pixels in a WebP file
sharpWebp(input) ==
    IF IsImage(input) THEN Return(<<87>> \o Tail(input))
    ELSE Throw(RuntimeError("Error"))

\* the row y (from 0) of a transparent canvas after the overlays were painted in
\* order, each at its top
RowPainted(overlays, y) ==
    LET over == {k \in 1..Len(overlays) :
                    /\ overlays[k].top <= y
                    /\ y < overlays[k].top + overlays[k].input[3]}
    IN IF over = {} THEN 0
       ELSE LET k == CHOOSE j \in over : \A i \in over : i <= j
            IN overlays[k].input[4 + (y - overlays[k].top)]

\* sharp({create: {width, height, ...}}).composite(overlays).webp(options).toBuffer();
\* an overlay has to be an image no larger than the canvas
sharpComposite(width, height, overlays) ==
    IF \/ width < 1
       \/ height < 1
       \/ \E k \in 1..Len(overlays) :
              \/ ~IsImage(overlays[k].input)
              \/ overlays[k].input[2] > width
              \/ overlays[k].input[3] > height
    THEN Throw(RuntimeError("Error"))
    ELSE Return(<<87, width, height>> \o [y \in 1..height |-> RowPainted(overlays, y - 1)])

\* sharp(input).extract({left, top, width, height}).toBuffer(): the region has
\* to lie inside the image
sharpExtract(input, left, top, width, height) ==
    IF \/ ~IsImage(input)
       \/ left < 0 \/ top < 0 \/ width < 1 \/ height < 1
       \/ left + width > input[2]
       \/ top + height > input[3]
    THEN Throw(RuntimeError("Error"))
    ELSE Return(<<input[1], width, height>> \o SubSeq(input, 4 + top, 3 + top + height))

----------------------------------------------------------------------------
(* Sprite sheets (webp.ts).  Each function gives the outcome of the call and  *)
(* the calls it made to the codec, in order.                                  *)

createWebPProcessingError ==
    H5AnimateError(H5AnimateErrorCode.WEBP_PROCESSING_ERROR, Undefined, <<>>, "")

\* the { webpData, spriteInfo } of an ImageConversionResult
ImageConversionResult(data, info) ==
    [t |-> "result", v |-> [webpData |-> data, spriteInfo |-> info]]

\* a sheet of frames that are all as high as the first image
totalHeight_EqualHeights(imageMetas, n) ==
    IF n = 0 THEN 0 ELSE n * imageMetas[1].val.height

RECURSIVE totalHeight(_, _)
\* imageMetas.reduce((sum, meta) => sum + meta.height, 0) over the first n metas:
\* currentY before image n + 1, totalHeight for n = imageMetas.length
totalHeight(imageMetas, n) ==
    IF n = 0 THEN 0 ELSE totalHeight(imageMetas, n - 1) + imageMetas[n].val.height

RECURSIVE maxWidth(_, _)
\* Math.max(...imageMetas.map((meta) => meta.width)) over the first n metas
maxWidth(imageMetas, n) ==
    IF n = 1 THEN imageMetas[1].val.width
    ELSE Max(maxWidth(imageMetas, n - 1), imageMetas[n].val.width)

\* the `composite` list: image i at left 0 and top currentY
overlaysOf(imageBuffers, imageMetas) ==
    [i \in 1..Len(imageBuffers) |->
        [input |-> imageBuffers[i], top |-> totalHeight(imageMetas, i - 1), left |-> 0]]

\* the calls of the measuring pass
measureCalls(imageBuffers) ==
    [i \in 1..Len(imageBuffers) |-> Call("metadata", imageBuffers[i], 0, 0, 0, 0)]

\* the calls that create the canvas and composite the overlays onto it
compositeCalls(width, height, overlays) ==
    <<Call("create", <<>>, 0, 0, width, height)>>
    \o [i \in 1..Len(overlays) |->
           Call("composite", overlays[i].input, overlays[i].left, overlays[i].top,
                overlays[i].input[2], overlays[i].input[3])]

\* the end of createVerticalSpriteSheet: the sheet the codec produced, or its
\* failure wrapped by the catch block
sheetResult(data, width, height, made) ==
    [out |-> IF data.ok
             THEN Return(ImageConversionResult(
                      Buf(data.val), SpriteInfo(1, <<SpriteDimension(width, height)>>)))
             ELSE Throw(createWebPProcessingError),
     calls |-> made]

\* createVerticalSpriteSheet once the images were measured
sheetOfMeasured(imageBuffers, imageMetas) ==
    IF \E i \in 1..Len(imageMetas) : ~imageMetas[i].ok
    THEN [out |-> Throw(createWebPProcessingError), calls |-> measureCalls(imageBuffers)]
    ELSE IF Len(imageBuffers) = 1
    THEN sheetResult(sharpWebp(imageBuffers[1]), imageMetas[1].val.width,
                     imageMetas[1].val.height,
                     measureCalls(imageBuffers)
                         \o <<Call("webp", imageBuffers[1], 0, 0, 0, 0)>>)
    ELSE sheetResult(
             sharpComposite(maxWidth(imageMetas, Len(imageMetas)),
                            totalHeight(imageMetas, Len(imageMetas)),
                            overlaysOf(imageBuffers, imageMetas)),
             maxWidth(imageMetas, Len(imageMetas)),
             totalHeight(imageMetas, Len(imageMetas)),
             measureCalls(imageBuffers)
                 \o compositeCalls(maxWidth(imageMetas, Len(imageMetas)),
                                   totalHeight(imageMetas, Len(imageMetas)),
                                   overlaysOf(imageBuffers, imageMetas)))

createVerticalSpriteSheet(imageBuffers) ==
    IF Len(imageBuffers) = 0
    THEN [out |-> Throw(createWebPProcessingError), calls |-> <<>>]
    ELSE sheetOfMeasured(imageBuffers,
                         [i \in 1..Len(imageBuffers) |-> sharpMetadata(imageBuffers[i])])

\* extractFrameByIndex once the sheet was measured
frameOfMeasured(webpBuffer, frameIndex, width, height, measured) ==
    IF ~measured.ok
    THEN [out |-> Throw(createWebPProcessingError),
          calls |-> <<Call("metadata", webpBuffer, 0, 0, 0, 0)>>]
    ELSE IF frameIndex * height + height > measured.val.height
    THEN [out |-> Throw(createWebPProcessingError),
          calls |-> <<Call("metadata", webpBuffer, 0, 0, 0, 0)>>]
    ELSE [out |-> IF sharpExtract(webpBuffer, 0, frameIndex * height,
                                  Coalesce(width, Num(measured.val.width)).v, height).ok
                  THEN Return(Buf(sharpExtract(webpBuffer, 0, frameIndex * height,
                                  Coalesce(width, Num(measured.val.width)).v, height).val))
                  ELSE Throw(createWebPProcessingError),
          calls |-> <<Call("metadata", webpBuffer, 0, 0, 0, 0),
                      Call("extract", webpBuffer, 0, frameIndex * height,
                           Coalesce(width, Num(measured.val.width)).v, height)>>]

\* extractFrameByIndex(webpBuffer, frameIndex, { width, height })
extractFrameByIndex(webpBuffer, frameIndex, width, height) ==
    frameOfMeasured(webpBuffer, frameIndex, width, height, sharpMetadata(webpBuffer))

\* the count rounded up: a last frame that is cut short is counted
countOf_RoundedUp(spriteHeight, frameHeight, frameCount) ==
    IF ~IsNullish(frameCount) THEN frameCount.v
    ELSE IF frameHeight > 0 THEN (spriteHeight + frameHeight - 1) \div frameHeight
    ELSE IF frameHeight = 0 THEN 1
    ELSE -1

\* frameCount ?? Math.floor(spriteHeight / frameHeight); Infinity (a division by
\* 0) is cut to 1, the first crop failing already, and a negative quotient to -1
countOf(spriteHeight, frameHeight, frameCount) ==
    IF ~IsNullish(frameCount) THEN frameCount.v
    ELSE IF frameHeight > 0 THEN spriteHeight \div frameHeight
    ELSE IF frameHeight = 0 THEN 1
    ELSE -1

\* the crops extractAllFrames asks for, one for each i < count
cropsOf(webpBuffer, frameHeight, spriteWidth, count) ==
    [i \in 1..count |-> sharpExtract(webpBuffer, 0, (i - 1) * frameHeight,
                                     spriteWidth, frameHeight)]

\* the loop of extractAllFrames: it stops at the first crop that fails
framesOfCrops(webpBuffer, frameHeight, spriteWidth, crops) ==
    LET failed == {i \in 1..Len(crops) : ~crops[i].ok}
        last == IF failed = {} THEN Len(crops)
                ELSE CHOOSE i \in failed : \A j \in failed : i <= j
    IN [out |-> IF failed = {} THEN Return(Arr([i \in 1..Len(crops) |-> Buf(crops[i].val)]))
                ELSE Throw(createWebPProcessingError),
        calls |-> <<Call("metadata", webpBuffer, 0, 0, 0, 0)>>
                  \o [i \in 1..last |->
                         Call("extract", webpBuffer, 0, (i - 1) * frameHeight,
                              spriteWidth, frameHeight)]]

\* extractAllFrames once the sheet was measured
framesOfMeasured(webpBuffer, frameHeight, frameCount, measured) ==
    IF ~measured.ok
    THEN [out |-> Throw(createWebPProcessingError),
          calls |-> <<Call("metadata", webpBuffer, 0, 0, 0, 0)>>]
    ELSE framesOfCrops(webpBuffer, frameHeight, measured.val.width,
                       cropsOf(webpBuffer, frameHeight, measured.val.width,
                               countOf(measured.val.height, frameHeight, frameCount)))

\* extractAllFrames(webpBuffer, frameHeight, frameCount)
extractAllFrames(webpBuffer, frameHeight, frameCount) ==
    framesOfMeasured(webpBuffer, frameHeight, frameCount, sharpMetadata(webpBuffer))

----------------------------------------------------------------------------
(* Base64, as Buffer.from(text, "base64") and buf.toString("base64"), over the *)
(* characters of the alphabet and the padding "="                              *)

\* the six bits a character of the alphabet stands for
B64Value(c) ==
    CASE c \in 65..90 -> c - 65
      [] c \in 97..122 -> c - 71
      [] c \in 48..57 -> c + 4
      [] c = 43 -> 62
      [] c = 47 -> 63

\* the character that stands for six bits
B64Char(v) ==
    IF v < 26 THEN v + 65
    ELSE IF v < 52 THEN v + 71
    ELSE IF v < 62 THEN v - 4
    ELSE IF v = 62 THEN 43 ELSE 47

RECURSIVE Base64Encode(_)
Base64Encode(bytes) ==
    IF bytes = <<>> THEN <<>>
    ELSE IF Len(bytes) = 1
    THEN <<B64Char(bytes[1] \div 4), B64Char((bytes[1] % 4) * 16), 61, 61>>
    ELSE IF Len(bytes) = 2
    THEN <<B64Char(bytes[1] \div 4),
           B64Char((bytes[1] % 4) * 16 + bytes[2] \div 16),
           B64Char((bytes[2] % 16) * 4), 61>>
    ELSE <<B64Char(bytes[1] \div 4),
           B64Char((bytes[1] % 4) * 16 + bytes[2] \div 16),
           B64Char((bytes[2] % 16) * 4 + bytes[3] \div 64),
           B64Char(bytes[3] % 64)>>
         \o Base64Encode(SubSeq(bytes, 4, Len(bytes)))

RECURSIVE Base64Decode(_)
\* four characters give three bytes; the text ends at its end or at a "="
Base64Decode(s) ==
    IF Len(s) < 2 \/ s[1] = 61 \/ s[2] = 61 THEN <<>>
    ELSE IF Len(s) = 2 \/ s[3] = 61
    THEN <<B64Value(s[1]) * 4 + B64Value(s[2]) \div 16>>
    ELSE IF Len(s) = 3 \/ s[4] = 61
    THEN <<B64Value(s[1]) * 4 + B64Value(s[2]) \div 16,
           (B64Value(s[2]) % 16) * 16 + B64Value(s[3]) \div 4>>
    ELSE <<B64Value(s[1]) * 4 + B64Value(s[2]) \div 16,
           (B64Value(s[2]) % 16) * 16 + B64Value(s[3]) \div 4,
           (B64Value(s[3]) % 4) * 64 + B64Value(s[4])>>
         \o Base64Decode(SubSeq(s, 5, Len(s)))

\* base64Data.split(",")[1]: what stands between the first comma and the next
AfterComma(s) ==
    LET commas == {i \in 1..Len(s) : s[i] = 44}
        first == CHOOSE i \in commas : \A j \in commas : i <= j
        next == {i \in commas : i > first}
    IN SubSeq(s, first + 1,
              IF next = {} THEN Len(s)
              ELSE (CHOOSE i \in next : \A j \in next : i <= j) - 1)

\* base64ToBuffer(base64Data): the bytes, a data URI prefix being dropped
base64ToBuffer(base64Data) ==
    IF \E i \in 1..Len(base64Data) : base64Data[i] = 44
    THEN Base64Decode(AfterComma(base64Data))
    ELSE Base64Decode(base64Data)

\* combineBase64ImagesToWebP(base64Images)
combineBase64ImagesToWebP(base64Images) ==
    createVerticalSpriteSheet(
        [i \in 1..Len(SelectSeq(base64Images, LAMBDA img : Len(img) > 0)) |->
            base64ToBuffer(SelectSeq(base64Images, LAMBDA img : Len(img) > 0)[i])])

----------------------------------------------------------------------------
(* The legacy converter (converter.ts) *)

createConversionFailedError ==
    H5AnimateError(H5AnimateErrorCode.CONVERSION_FAILED, Undefined, <<>>, "")

\* value[i] for a frame index i: a property of an object keyed by numbers, an
\* element of an array, undefined on anything else
Entry(value, i) == IF value.t = "object" THEN Get(value, NumText(i)) ELSE At(value, i)

\* validateLegacyFormat(data): the error it throws, NoError when it returns
validateLegacyFormat(data) ==
    IF data.t = "null" \/ TypeOf(data) # "object" THEN createValidationError(<<>>)
    ELSE IF MissingOf(data, <<K.ratio, K.bitmaps, K.frame_max, K.frames>>,
                      <<"ratio", "bitmaps", "frame_max", "frames">>) # <<>>
    THEN createValidationError(
             MissingOf(data, <<K.ratio, K.bitmaps, K.frame_max, K.frames>>,
                       <<"ratio", "bitmaps", "frame_max", "frames">>))
    ELSE IF TypeOf(Get(data, K.ratio)) # "number" THEN createValidationError(<<>>)
    ELSE IF ~IsArray(Get(data, K.bitmaps)) THEN createValidationError(<<>>)
    ELSE IF TypeOf(Get(data, K.frame_max)) # "number" \/ NumBelow(Get(data, K.frame_max), 0)
    THEN createValidationError(<<>>)
    ELSE IF ~IsArray(Get(data, K.frames)) THEN createValidationError(<<>>)
    ELSE NoError

\* validateLegacyAnimateFile(data) of the validator: the error it throws
validateLegacyAnimateFile(data) ==
    IF data.t = "null" \/ TypeOf(data) # "object" THEN createTypeMismatchError("legacyData")
    ELSE IF MissingOf(data, <<K.ratio, K.bitmaps, K.frame_max, K.frames>>,
                      <<"ratio", "bitmaps", "frame_max", "frames">>) # <<>>
    THEN createMissingFieldError(
             MissingOf(data, <<K.ratio, K.bitmaps, K.frame_max, K.frames>>,
                       <<"ratio", "bitmaps", "frame_max", "frames">>), "legacyData")
    ELSE IF TypeOf(Get(data, K.ratio)) # "number"
    THEN createTypeMismatchError("legacyData.ratio")
    ELSE IF ~IsArray(Get(data, K.bitmaps)) THEN createTypeMismatchError("legacyData.bitmaps")
    ELSE IF TypeOf(Get(data, K.frame_max)) # "number"
    THEN createTypeMismatchError("legacyData.frame_max")
    ELSE IF NumBelow(Get(data, K.frame_max), 0)
    THEN createValueOutOfRangeError("legacyData.frame_max")
    ELSE IF ~IsArray(Get(data, K.frames)) THEN createTypeMismatchError("legacyData.frames")
    ELSE IF /\ HasKey(data, K.se) /\ Get(data, K.se).t # "undefined"
            /\ TypeOf(Get(data, K.se)) # "string"
            /\ (TypeOf(Get(data, K.se)) # "object" \/ Get(data, K.se).t = "null")
    THEN createTypeMismatchError("legacyData.se")
    ELSE IF /\ HasKey(data, K.pitch) /\ Get(data, K.pitch).t # "undefined"
            /\ (TypeOf(Get(data, K.pitch)) # "object" \/ Get(data, K.pitch).t = "null")
    THEN createTypeMismatchError("legacyData.pitch")
    ELSE NoError

\* the sound of the frame-specific branch: { name: soundName }, with the pitch
\* of the frame when legacy.pitch has one
frameSound(legacy, frameIndex, soundName) ==
    Obj(<<<<K.name, soundName>>>>
        \o (IF /\ Truthy(Get(legacy, K.pitch))
               /\ Entry(Get(legacy, K.pitch), frameIndex).t # "undefined"
            THEN <<<<K.pitch, Entry(Get(legacy, K.pitch), frameIndex)>>>>
            ELSE <<>>))

\* a conversion that gives every frame the global sound
convertSoundData_EveryFrame(legacy, frameIndex) ==
    IF ~Truthy(Get(legacy, K.se)) THEN Undefined
    ELSE IF TypeOf(Get(legacy, K.se)) = "string"
    THEN Arr(<<Obj(<<<<K.name, Get(legacy, K.se)>>>>)>>)
    ELSE IF Truthy(Entry(Get(legacy, K.se), frameIndex))
    THEN Arr(<<frameSound(legacy, frameIndex, Entry(Get(legacy, K.se), frameIndex))>>)
    ELSE Undefined

\* convertSoundData(legacy, frameIndex): the sounds of the frame, or undefined
convertSoundData(legacy, frameIndex) ==
    IF ~Truthy(Get(legacy, K.se)) THEN Undefined
    ELSE IF TypeOf(Get(legacy, K.se)) = "string"
    THEN (IF frameIndex = 0 THEN Arr(<<Obj(<<<<K.name, Get(legacy, K.se)>>>>)>>)
          ELSE Undefined)
    ELSE IF Truthy(Entry(Get(legacy, K.se), frameIndex))
    THEN Arr(<<frameSound(legacy, frameIndex, Entry(Get(legacy, K.se), frameIndex))>>)
    ELSE Undefined

\* convertFrameLayer(layer)
convertFrameLayer(layer) ==
    Obj(<<<<K.index, At(layer, 0)>>, <<K.x, At(layer, 1)>>, <<K.y, At(layer, 2)>>,
          <<K.scale, At(layer, 3)>>, <<K.opacity, At(layer, 4)>>,
          <<K.mirror, Coalesce(At(layer, 5), Num(0))>>,
          <<K.rotate, Coalesce(At(layer, 6), Num(0))>>>>)

\* the number of passes of `for (let i = 0; i < legacy.frame_max; i++)`: a
\* comparison with NaN or undefined is false
framePasses(frame_max) ==
    CASE frame_max.t = "number" -> Max(frame_max.v, 0)
      [] frame_max.t = "fraction" ->
             Max((frame_max.v[1] + frame_max.v[2] - 1) \div frame_max.v[2], 0)
      [] OTHER -> 0

\* legacy.frames[i] || []
frameDataOf(legacy, i) ==
    IF Truthy(Entry(Get(legacy, K.frames), i)) THEN Entry(Get(legacy, K.frames), i)
    ELSE Arr(<<>>)

\* pass i of the loop throws a TypeError: legacy.frames is undefined or null,
\* frameData is a string (it has a length and no map), or a layer is null
framePassThrows(legacy, i) ==
    \/ IsNullish(Get(legacy, K.frames))
    \/ frameDataOf(legacy, i).t = "string"
    \/ /\ frameDataOf(legacy, i).t = "array"
       /\ \E j \in 1..Len(frameDataOf(legacy, i).v) : IsNullish(frameDataOf(legacy, i).v[j])

\* a frame that always carries an objects array
framePass_AlwaysObjects(legacy, i) ==
    Obj((IF frameDataOf(legacy, i).t = "array"
         THEN <<<<K.objects,
                  Arr([j \in 1..Len(frameDataOf(legacy, i).v) |->
                          convertFrameLayer(frameDataOf(legacy, i).v[j])])>>>>
         ELSE <<>>)
        \o (IF Truthy(convertSoundData(legacy, i))
            THEN <<<<K.sound, convertSoundData(legacy, i)>>>>
            ELSE <<>>))

\* the frame pass i of the loop pushes: objects when frameData.length > 0, sound
\* when the frame has one
framePass(legacy, i) ==
    Obj((IF frameDataOf(legacy, i).t = "array" /\ Len(frameDataOf(legacy, i).v) > 0
         THEN <<<<K.objects,
                  Arr([j \in 1..Len(frameDataOf(legacy, i).v) |->
                          convertFrameLayer(frameDataOf(legacy, i).v[j])])>>>>
         ELSE <<>>)
        \o (IF Truthy(convertSoundData(legacy, i))
            THEN <<<<K.sound, convertSoundData(legacy, i)>>>>
            ELSE <<>>))

\* convertMetadata(legacy)
convertMetadata(legacy) ==
    IF IsNullish(legacy) THEN Throw(RuntimeError("TypeError"))
    ELSE IF \E i \in 0..(framePasses(Get(legacy, K.frame_max)) - 1) : framePassThrows(legacy, i)
    THEN Throw(RuntimeError("TypeError"))
    ELSE Return(H5AnimateMeta(Get(legacy, K.ratio),
                    [i \in 1..framePasses(Get(legacy, K.frame_max)) |->
                        framePass(legacy, i - 1)]))

\* bitmaps.filter((bitmap) => bitmap.length > 0), as texts
validBitmaps(bitmaps) ==
    [i \in 1..Len(SelectSeq(bitmaps.v, LAMBDA b : b.t = "string" /\ Len(b.v) > 0)) |->
        SelectSeq(bitmaps.v, LAMBDA b : b.t = "string" /\ Len(b.v) > 0)[i].v]

\* a conversion that hands whatever survives the filter to the sheet builder
convertImages_Unguarded(bitmaps) ==
    IF \E i \in 1..Len(bitmaps.v) : IsNullish(bitmaps.v[i])
    THEN [out |-> Throw(RuntimeError("TypeError")), calls |-> <<>>]
    ELSE combineBase64ImagesToWebP(validBitmaps(bitmaps))

\* convertImages(bitmaps): the outcome and the calls made to the pixel codec;
\* reading the length of a null element is a TypeError raised before the try
convertImages(bitmaps) ==
    IF \E i \in 1..Len(bitmaps.v) : IsNullish(bitmaps.v[i])
    THEN [out |-> Throw(RuntimeError("TypeError")), calls |-> <<>>]
    ELSE IF Len(validBitmaps(bitmaps)) = 0
    THEN [out |-> Throw(createConversionFailedError), calls |-> <<>>]
    ELSE combineBase64ImagesToWebP(validBitmaps(bitmaps))

\* the steps of convertToH5Animate, as far as the call got
PipelineSteps(n) ==
    SubSeq(<<"validateLegacyFormat", "convertImages", "convertMetadata", "encodeH5Animate">>,
           1, n)

\* convertToH5Animate once the images and the metadata were converted: the
\* encoder is the last call of the run
convertEncoded(converted_images, converted_meta, fill) ==
    IF ~converted_meta.ok
    THEN [out |-> converted_meta, calls |-> converted_images.calls,
          steps |-> PipelineSteps(3)]
    ELSE [out |-> encodeH5Animate(converted_meta.val,
                                  converted_images.out.val.v.spriteInfo,
                                  converted_images.out.val.v.webpData, fill),
          calls |-> Append(converted_images.calls,
                           Call("encode", converted_images.out.val.v.webpData.v,
                                0, 0, 0, 0)),
          steps |-> PipelineSteps(4)]

\* a conversion that converts the metadata although the images have failed
convertOfImages_KeepsGoing(legacy, converted_images, fill) ==
    IF ~converted_images.out.ok
    THEN [out |-> converted_images.out, calls |-> converted_images.calls,
          steps |-> PipelineSteps(3)]
    ELSE convertEncoded(converted_images, convertMetadata(legacy), fill)

\* convertToH5Animate once the images were converted
convertOfImages(legacy, converted_images, fill) ==
    IF ~converted_images.out.ok
    THEN [out |-> converted_images.out, calls |-> converted_images.calls,
          steps |-> PipelineSteps(2)]
    ELSE convertEncoded(converted_images, convertMetadata(legacy), fill)

\* convertToH5Animate(legacyData): the outcome, the calls made to the pixel
\* codec and to the encoder, and the steps taken
convertToH5Animate(legacy, fill) ==
    IF validateLegacyFormat(legacy) # NoError
    THEN [out |-> Throw(validateLegacyFormat(legacy)), calls |-> <<>>,
          steps |-> PipelineSteps(1)]
    ELSE convertOfImages(legacy, convertImages(Get(legacy, K.bitmaps)), fill)

----------------------------------------------------------------------------
(* The sprite sheet script: images are packed into a sheet, and frames are    *)
(* extracted from the sheet.                                                  *)

MaxImages == 3
MaxSide == 2
MaxIndex == 2

\* a PNG file of the given size; its rows carry the image's number and their own
Png(id, width, height) == <<80, width, height>> \o [r \in 1..height |-> 16 * id + r]

\* the bytes of "not an image"
NotAnImage == <<110, 111, 116>>

\* the lists of at most MaxImages buffers: image i of a list is a PNG of some
\* size, or no image at all
ImageLists ==
    UNION {{[i \in 1..n |-> IF size[i] = <<0, 0>> THEN NotAnImage
                            ELSE Png(i, size[i][1], size[i][2])] :
               size \in [1..n -> ((1..MaxSide) \X (1..MaxSide)) \cup {<<0, 0>>}]} :
           n \in 0..MaxImages}

SheetInit ==
    /\ pc = "images"
    /\ images \in ImageLists
    /\ packed = NotCalled
    /\ request = [frameIndex |-> 0, height |-> 0, width |-> Undefined, frameCount |-> Undefined]
    /\ extracted = NotCalled
    /\ allExtracted = NotCalled
    /\ calls = <<>>
    /\ CodecIdle
    /\ ConverterIdle
    /\ ParserIdle

\* createVerticalSpriteSheet(images)
Pack ==
    /\ pc = "images"
    /\ packed' = createVerticalSpriteSheet(images).out
    /\ calls' = createVerticalSpriteSheet(images).calls
    /\ pc' = IF packed'.ok THEN "packed" ELSE "done"
    /\ UNCHANGED <<images, request, extracted, allExtracted, codecVars, converterVars, parserVars>>

\* extractFrameByIndex(sheet, frameIndex, { width, height }) on the packed sheet
ExtractFrame ==
    /\ pc = "packed"
    /\ \E frameIndex \in 0..MaxIndex, height \in 1..(MaxSide + 1),
          width \in {Undefined, Num(1)} :
          /\ request' = [frameIndex |-> frameIndex, height |-> height, width |-> width,
                         frameCount |-> Undefined]
          /\ extracted' = extractFrameByIndex(packed.val.v.webpData.v, frameIndex,
                                              width, height).out
          /\ calls' = calls \o extractFrameByIndex(packed.val.v.webpData.v, frameIndex,
                                                   width, height).calls
    /\ pc' = "done"
    /\ UNCHANGED <<images, packed, allExtracted, codecVars, converterVars, parserVars>>

\* extractAllFrames(sheet, frameHeight, frameCount) on the packed sheet
ExtractAll ==
    /\ pc = "packed"
    /\ \E frameHeight \in 1..(MaxSide + 1),
          frameCount \in {Undefined} \cup {Num(n) : n \in 0..MaxIndex} :
          /\ request' = [frameIndex |-> 0, height |-> frameHeight, width |-> Undefined,
                         frameCount |-> frameCount]
          /\ allExtracted' = extractAllFrames(packed.val.v.webpData.v, frameHeight,
                                              frameCount).out
          /\ calls' = calls \o extractAllFrames(packed.val.v.webpData.v, frameHeight,
                                                frameCount).calls
    /\ pc' = "done"
    /\ UNCHANGED <<images, packed, extracted, codecVars, converterVars, parserVars>>

SheetNext == Pack \/ ExtractFrame \/ ExtractAll

SheetSpec == SheetInit /\ [][SheetNext]_vars

----------------------------------------------------------------------------
(* Properties of the sprite sheet script *)

\* the calls to the codec of one kind, in order
CallsOf(op) == SelectSeq(calls, LAMBDA c : c.op = op)

\* the bytes of the packed sheet
Sheet == packed.val.v.webpData.v

\* every buffer of the list is an image
AllImages == \A i \in 1..Len(images) : IsImage(images[i])

\* C15: when createVerticalSpriteSheet is given more than one image, it creates
\* a canvas as wide as the widest image and as high as all the images together,
\* composites image i at left 0 with its top where image i - 1 ends (0 for the
\* first), so that the regions are pairwise disjoint and inside the canvas, and
\* returns spriteInfo {count: 1, dimensions: [{width, height}]} of that canvas
C15_PackingGeometry ==
    (Called(packed) /\ Len(images) > 1 /\ AllImages) =>
        /\ packed.ok
        /\ Len(CallsOf("create")) = 1
        /\ Len(CallsOf("composite")) = Len(images)
        /\ \A i \in 1..Len(images) :
              /\ CallsOf("composite")[i].input = images[i]
              /\ CallsOf("composite")[i].left = 0
              /\ CallsOf("composite")[i].top =
                     IF i = 1 THEN 0
                     ELSE CallsOf("composite")[i - 1].top + images[i - 1][3]
              /\ images[i][2] <= CallsOf("create")[1].width
              /\ CallsOf("composite")[i].top + images[i][3] <= CallsOf("create")[1].height
              /\ \A j \in 1..(i - 1) :
                    CallsOf("composite")[j].top + images[j][3] <= CallsOf("composite")[i].top
        /\ \E i \in 1..Len(images) : images[i][2] = CallsOf("create")[1].width
        /\ CallsOf("create")[1].height =
               CallsOf("composite")[Len(images)].top + images[Len(images)][3]
        /\ packed.val.v.spriteInfo =
               SpriteInfo(1, <<SpriteDimension(CallsOf("create")[1].width,
                                               CallsOf("create")[1].height)>>)
        /\ Sheet[2] = CallsOf("create")[1].width
        /\ Sheet[3] = CallsOf("create")[1].height

\* C15's case: three images of widths 1, 2, 1 and heights 2, 1, 2 were packed
\* into a sheet of width 2 and height 5, the third image at top 3
C15_Witness ==
    /\ packed.ok
    /\ images = <<Png(1, 1, 2), Png(2, 2, 1), Png(3, 1, 2)>>
    /\ packed.val.v.spriteInfo = SpriteInfo(1, <<SpriteDimension(2, 5)>>)
    /\ CallsOf("composite")[3].top = 3
    /\ Sheet = <<87, 2, 5, 17, 18, 33, 49, 50>>

\* C16 (as claimed): createVerticalSpriteSheet called with no image throws an
\* H5AnimateError of code IMAGE_MERGE_ERROR and calls the codec not once
C16_NoImagesMergeError ==
    (Called(packed) /\ images = <<>>) =>
        /\ ThrewCode(packed, H5AnimateErrorCode.IMAGE_MERGE_ERROR)
        /\ calls = <<>>

\* the rows of the sheet a frame of the given height at the given index covers
FrameRows(index, height) ==
    <<Sheet[1], Sheet[2], height>> \o SubSeq(Sheet, 4 + index * height,
                                             3 + (index + 1) * height)

\* C17 (as claimed): extractFrameByIndex throws an H5AnimateError of code
\* FRAME_EXTRACTION_ERROR, asking for no crop, whenever index * height + height
\* exceeds the measured height of the sheet, and otherwise crops the rows
\* index * height .. index * height + height
C17_OutOfRangeExtraction ==
    (Called(extracted) /\ request.width.t = "undefined") =>
        IF request.frameIndex * request.height + request.height > Sheet[3]
        THEN /\ ThrewCode(extracted, H5AnimateErrorCode.FRAME_EXTRACTION_ERROR)
             /\ CallsOf("extract") = <<>>
        ELSE /\ extracted.ok
             /\ extracted.val.v = FrameRows(request.frameIndex, request.height)

\* C18: extractAllFrames without a count returns floor(sheetHeight / height)
\* frames, frame i being the rows i * height .. (i + 1) * height of the sheet;
\* the crops are asked for in ascending i, and each lies inside the sheet
C18_AllFramesCount ==
    (Called(allExtracted) /\ request.frameCount.t = "undefined") =>
        /\ allExtracted.ok
        /\ Len(allExtracted.val.v) = Sheet[3] \div request.height
        /\ Len(CallsOf("extract")) = Sheet[3] \div request.height
        /\ \A i \in 1..Len(allExtracted.val.v) :
              /\ allExtracted.val.v[i].v = FrameRows(i - 1, request.height)
              /\ CallsOf("extract")[i].top = (i - 1) * request.height
              /\ CallsOf("extract")[i].height = request.height
              /\ CallsOf("extract")[i].top + request.height <= Sheet[3]

\* C18's case: a sheet of height 5 was cut into frames of height 2: two frames,
\* the last row of the sheet being left out
C18_Witness ==
    /\ allExtracted.ok
    /\ request.frameCount.t = "undefined"
    /\ request.height = 2
    /\ Sheet[3] = 5
    /\ Len(allExtracted.val.v) = 2
    /\ allExtracted.val.v[2].v = <<87, Sheet[2], 2>> \o SubSeq(Sheet, 6, 7)


----------------------------------------------------------------------------
(* The legacy conversion script: a legacy animation is validated by both
   validators, its metadata converted, and the whole file converted *)

\* a field the legacy file does not have
Absent == [t |-> "absent", v |-> <<>>]

\* a LegacyAnimateFile with the given fields, without those that are Absent
LegacyAnimateFile(ratio, bitmaps, frame_max, frames, se, pitch) ==
    Obj(SelectSeq(<<<<K.ratio, ratio>>, <<K.bitmaps, bitmaps>>, <<K.frame_max, frame_max>>,
                    <<K.frames, frames>>, <<K.se, se>>, <<K.pitch, pitch>>>>,
                  LAMBDA field : field[2].t # "absent"))

\* a legacy layer [index, x, y, scale, opacity] and one with mirror and rotate
Layer5(index) == Arr(<<Num(index), Num(1), Num(2), Num(100), Num(255)>>)
Layer7(index) ==
    Arr(<<Num(index), Num(1), Num(2), Num(100), Num(255), Num(1), Num(90)>>)

\* a sparse map from frame indices to values
Sparse(indices, values) ==
    Obj([i \in 1..Len(indices) |-> <<NumText(indices[i]), values[i]>>])

SoundA == Str(<<97>>)
SoundB == Str(<<98>>)

LegacySounds ==
    {Absent, Str(<<>>), SoundA, Sparse(<<0, 2>>, <<SoundA, SoundB>>),
     Sparse(<<1>>, <<Str(<<>>)>>), Sparse(<<1>>, <<SoundB>>)}

LegacyPitches ==
    {Absent, Sparse(<<0>>, <<Num(2)>>), Sparse(<<1, 2>>, <<Num(0), Num(3)>>)}

LegacyFrames ==
    {Arr(<<>>), Arr(<<Arr(<<>>)>>), Arr(<<Arr(<<Layer5(0)>>)>>),
     Arr(<<Arr(<<Layer5(0)>>), Arr(<<Layer7(1), Layer5(0)>>)>>),
     Arr(<<Arr(<<>>), Arr(<<Layer7(0)>>)>>),
     Arr(<<Arr(<<Layer5(1)>>), Null, Arr(<<Layer5(0), Layer5(1)>>)>>),
     Arr(<<Str(<<97, 98>>)>>), Arr(<<Arr(<<Null>>)>>), Arr(<<Num(5)>>)}

LegacyFrameMax ==
    {Num(n) : n \in -1..(MaxFrames + 1)} \cup {Frac(3, 2), NaN, Str(<<50>>)}

PngText(id, width, height) == Str(Base64Encode(Png(id, width, height)))

\* "data:image/png;base64," in front of the text
DataUri(text) ==
    Str(<<100, 97, 116, 97, 58, 105, 109, 97, 103, 101, 47, 112, 110, 103, 59, 98, 97,
          115, 101, 54, 52, 44>> \o text.v)

LegacyBitmaps ==
    {Arr(<<>>), Arr(<<Str(<<>>)>>), Arr(<<Str(<<>>), Str(<<>>)>>),
     Arr(<<PngText(1, 2, 1)>>), Arr(<<Str(<<>>), PngText(1, 1, 2)>>),
     Arr(<<PngText(1, 1, 1), PngText(2, 2, 2)>>), Arr(<<DataUri(PngText(1, 1, 1))>>),
     Arr(<<Str(Base64Encode(NotAnImage))>>), Arr(<<Null>>), Str(<<120>>)}

\* the legacy files of the script: the sounds of every frame, the frames against
\* frame_max, the bitmaps, files lacking fields or holding fields of the wrong
\* type, and values that are no objects
LegacyInputs ==
    {LegacyAnimateFile(Num(2), Arr(<<PngText(1, 1, 1)>>), Num(n), frames, se, pitch) :
        n \in 0..(MaxFrames + 1), frames \in {Arr(<<>>), Arr(<<Arr(<<Layer5(0)>>)>>)},
        se \in LegacySounds, pitch \in LegacyPitches}
    \cup {LegacyAnimateFile(Num(2), Arr(<<PngText(1, 1, 1)>>), frame_max, frames, se, Absent) :
        frame_max \in LegacyFrameMax, frames \in LegacyFrames, se \in {Absent, SoundA}}
    \cup {LegacyAnimateFile(Num(2), bitmaps, Num(1), Arr(<<Arr(<<Layer5(0)>>)>>), se, Absent) :
        bitmaps \in LegacyBitmaps, se \in {Absent, SoundA}}
    \cup {LegacyAnimateFile(ratio, bitmaps, frame_max, frames, Absent, Absent) :
        ratio \in {Absent, Num(2), Str(<<50>>)},
        bitmaps \in {Absent, Arr(<<PngText(1, 1, 1)>>), Num(0)},
        frame_max \in {Absent, Num(1), Num(-1)},
        frames \in {Absent, Arr(<<Arr(<<Layer5(0)>>)>>), Null}}
    \cup {LegacyAnimateFile(Num(2), Arr(<<PngText(1, 1, 1)>>), Num(1), Arr(<<>>), se, pitch) :
        se \in {Num(7), Null}, pitch \in {Absent, Num(7), Null}}
    \cup {Null, Undefined, Str(<<120>>), Num(5), Arr(<<>>)}

ConvertInit ==
    /\ pc = "legacy"
    /\ legacyData \in LegacyInputs
    /\ legacyChecked = <<NotCalled, NotCalled>>
    /\ metaConverted = NotCalled
    /\ converted = NotCalled
    /\ steps = <<>>
    /\ calls = <<>>
    /\ CodecIdle
    /\ SheetIdle
    /\ ParserIdle

\* validateLegacyFormat(legacyData) and validateLegacyAnimateFile(legacyData)
ValidateLegacy ==
    /\ pc = "legacy"
    /\ legacyChecked' =
           <<IF validateLegacyFormat(legacyData) = NoError THEN Return(legacyData)
             ELSE Throw(validateLegacyFormat(legacyData)),
             IF validateLegacyAnimateFile(legacyData) = NoError THEN Return(legacyData)
             ELSE Throw(validateLegacyAnimateFile(legacyData))>>
    /\ pc' = "checked"
    /\ UNCHANGED <<legacyData, metaConverted, converted, steps, calls, codecVars, sheetVars,
                   parserVars>>

\* convertMetadata(legacyData)
ConvertMetadata ==
    /\ pc = "checked"
    /\ metaConverted' = convertMetadata(legacyData)
    /\ pc' = "metadata"
    /\ UNCHANGED <<legacyData, legacyChecked, converted, steps, calls, codecVars, sheetVars,
                   parserVars>>

\* convertToH5Animate(legacyData)
Convert ==
    /\ pc \in {"checked", "metadata"}
    /\ \E fill \in Fill :
           /\ converted' = convertToH5Animate(legacyData, fill).out
           /\ calls' = convertToH5Animate(legacyData, fill).calls
           /\ steps' = convertToH5Animate(legacyData, fill).steps
    /\ pc' = "done"
    /\ UNCHANGED <<legacyData, legacyChecked, metaConverted, codecVars, sheetVars, parserVars>>

ConvertNext == ValidateLegacy \/ ConvertMetadata \/ Convert

ConvertSpec == ConvertInit /\ [][ConvertNext]_vars


----------------------------------------------------------------------------
(* Properties of the legacy converter *)

\* the converted frames, once convertMetadata has returned
ConvertedFrames == Get(metaConverted.val, K.frame).v

\* the one sound the frame is expected to carry
OneSound(frame, soundName) ==
    /\ HasKey(frame, K.sound)
    /\ Get(frame, K.sound).t = "array"
    /\ Len(Get(frame, K.sound).v) = 1
    /\ Get(Get(frame, K.sound).v[1], K.name) = soundName

\* the sound of the frame carries the pitch of frame i exactly when the pitch
\* map of the legacy file has an entry at i
PitchAsMapped(frame, i) ==
    IF HasKey(Get(legacyData, K.pitch), NumText(i))
    THEN Get(Get(frame, K.sound).v[1], K.pitch) = Get(Get(legacyData, K.pitch), NumText(i))
    ELSE ~HasKey(Get(frame, K.sound).v[1], K.pitch)

\* the sound mapping of frame i as stated: a string gives frame 0 its sound, a
\* map gives frame i a sound exactly when it has an entry at i
SoundAsStated(frame, i) ==
    IF Get(legacyData, K.se).t = "string"
    THEN (IF i = 0 THEN OneSound(frame, Get(legacyData, K.se)) ELSE ~HasKey(frame, K.sound))
    ELSE IF HasKey(Get(legacyData, K.se), NumText(i))
    THEN OneSound(frame, Get(Get(legacyData, K.se), NumText(i))) /\ PitchAsMapped(frame, i)
    ELSE ~HasKey(frame, K.sound)

\* the sound mapping of frame i in which an empty name is no sound
SoundOfNonEmpty(frame, i) ==
    IF Get(legacyData, K.se).t = "string" /\ Get(legacyData, K.se).v # <<>>
    THEN (IF i = 0 THEN OneSound(frame, Get(legacyData, K.se)) ELSE ~HasKey(frame, K.sound))
    ELSE IF /\ HasKey(Get(legacyData, K.se), NumText(i))
            /\ Get(Get(legacyData, K.se), NumText(i)).t = "string"
            /\ Get(Get(legacyData, K.se), NumText(i)).v # <<>>
    THEN OneSound(frame, Get(Get(legacyData, K.se), NumText(i))) /\ PitchAsMapped(frame, i)
    ELSE ~HasKey(frame, K.sound)

\* C11, as stated: a string se gives frame 0 the sound [{name: se}] and the later
\* frames none; a sparse map gives frame i one sound {name: se[i]} exactly when
\* it has an entry at i, with pitch[i] exactly when the pitch map has an entry at
\* i; every other frame has no sound field
C11_SoundMappingAsStated ==
    metaConverted.ok =>
        \A i \in 0..(Len(ConvertedFrames) - 1) : SoundAsStated(ConvertedFrames[i + 1], i)

\* C11, amended: the same for a non-empty string se and for the non-empty
\* entries of a sparse map; an empty name gives the frame no sound field
C11_SoundMapping ==
    metaConverted.ok =>
        \A i \in 0..(Len(ConvertedFrames) - 1) : SoundOfNonEmpty(ConvertedFrames[i + 1], i)

\* a sparse map with a pitch for its first sound only was converted, frame 1
\* staying silent
C11_Witness ==
    /\ metaConverted.ok
    /\ Get(legacyData, K.se) = Sparse(<<0, 2>>, <<SoundA, SoundB>>)
    /\ Len(ConvertedFrames) = 3
    /\ HasKey(Get(ConvertedFrames[1], K.sound).v[1], K.pitch)
    /\ ~HasKey(ConvertedFrames[2], K.sound)
    /\ OneSound(ConvertedFrames[3], SoundB)
    /\ ~HasKey(Get(ConvertedFrames[3], K.sound).v[1], K.pitch)


\* legacy.frames[i] of the legacy file
LegacyFrameAt(i) == Entry(Get(legacyData, K.frames), i)

\* the objects of the frame are the layers, one by one and in their order
ObjectsOfLayers(frame, layers) ==
    /\ HasKey(frame, K.objects)
    /\ Get(frame, K.objects).t = "array"
    /\ Len(Get(frame, K.objects).v) = Len(layers)
    /\ \A j \in 1..Len(layers) :
           /\ Get(Get(frame, K.objects).v[j], K.index) = At(layers[j], 0)
           /\ Get(Get(frame, K.objects).v[j], K.x) = At(layers[j], 1)
           /\ Get(Get(frame, K.objects).v[j], K.opacity) = At(layers[j], 4)

\* C12: convertMetadata gives frame i no objects field when legacy.frames[i] is
\* absent or an empty array, and one object per layer, in the same order, when
\* it is an array of layers; no frame carries an empty objects array
C12_EmptyFrameDistinction ==
    metaConverted.ok =>
        \A i \in 0..(Len(ConvertedFrames) - 1) :
            /\ (IsNullish(LegacyFrameAt(i)) \/ LegacyFrameAt(i) = Arr(<<>>))
                   => ~HasKey(ConvertedFrames[i + 1], K.objects)
            /\ (LegacyFrameAt(i).t = "array" /\ LegacyFrameAt(i).v # <<>>)
                   => ObjectsOfLayers(ConvertedFrames[i + 1], LegacyFrameAt(i).v)
            /\ HasKey(ConvertedFrames[i + 1], K.objects)
                   => Get(ConvertedFrames[i + 1], K.objects).v # <<>>

\* three frames were converted from [[], [layer]]: the empty one and the absent
\* one have no objects, the other has its layer
C12_Witness ==
    /\ metaConverted.ok
    /\ Get(legacyData, K.frames) = Arr(<<Arr(<<>>), Arr(<<Layer7(0)>>)>>)
    /\ Len(ConvertedFrames) = 3
    /\ ~HasKey(ConvertedFrames[1], K.objects)
    /\ Len(Get(ConvertedFrames[2], K.objects).v) = 1
    /\ ~HasKey(ConvertedFrames[3], K.objects)


\* C13: for every legacy input that passes both legacy validators,
\* convertMetadata returns the ratio of the legacy file and exactly frame_max
\* frames
C13_FrameCount ==
    (legacyChecked[1].ok /\ legacyChecked[2].ok /\ pc = "metadata") =>
        /\ metaConverted.ok
        /\ Get(metaConverted.val, K.ratio) = Get(legacyData, K.ratio)
        /\ Get(legacyData, K.frame_max) = Num(Len(ConvertedFrames))


\* the bitmaps of the legacy file hold no image: an array of empty strings, or an
\* empty array
NoValidBitmaps ==
    /\ Get(legacyData, K.bitmaps).t = "array"
    /\ \A i \in 1..Len(Get(legacyData, K.bitmaps).v) :
           Get(legacyData, K.bitmaps).v[i] = Str(<<>>)

\* C14: converting a valid legacy file whose bitmaps are all empty strings, or
\* whose bitmaps array is empty, fails with CONVERSION_FAILED, and neither the
\* pixel codec nor the encoder was called
C14_NoValidImages ==
    (pc = "done" /\ legacyChecked[1].ok /\ NoValidBitmaps) =>
        /\ ~converted.ok
        /\ converted.err.name = "H5AnimateError"
        /\ converted.err.code = H5AnimateErrorCode.CONVERSION_FAILED
        /\ calls = <<>>

\* a legacy file with two empty bitmaps was refused
C14_Witness ==
    /\ pc = "done"
    /\ legacyChecked[1].ok
    /\ Get(legacyData, K.bitmaps) = Arr(<<Str(<<>>), Str(<<>>)>>)
    /\ converted.err.code = H5AnimateErrorCode.CONVERSION_FAILED
    /\ calls = <<>>


\* the property names of the required fields of a legacy file
RequiredKey ==
    [ratio |-> K.ratio, bitmaps |-> K.bitmaps, frame_max |-> K.frame_max,
     frames |-> K.frames]

\* the required fields the legacy file lacks, in the order of the list
AbsentRequired ==
    SelectSeq(<<"ratio", "bitmaps", "frame_max", "frames">>,
              LAMBDA name : ~HasKey(legacyData, RequiredKey[name]))

\* C19: a legacy object lacking required fields is refused by both legacy
\* validators with one error whose missingFields lists every absent required
\* field, whatever the types of the fields that are present
C19_LegacyMissingFields ==
    (pc # "legacy" /\ legacyData.t \in {"object", "array"} /\ AbsentRequired # <<>>) =>
        /\ ~legacyChecked[1].ok
        /\ legacyChecked[1].err.code = H5AnimateErrorCode.VALIDATION_ERROR
        /\ legacyChecked[1].err.missingFields = AbsentRequired
        /\ ~legacyChecked[2].ok
        /\ legacyChecked[2].err.code = H5AnimateErrorCode.MISSING_REQUIRED_FIELD
        /\ legacyChecked[2].err.missingFields = AbsentRequired

\* a file lacking bitmaps and frames, whose ratio is a string, was refused for
\* the two absent fields
C19_Witness ==
    /\ pc = "checked"
    /\ Get(legacyData, K.ratio) = Str(<<50>>)
    /\ Get(legacyData, K.frame_max) = Num(-1)
    /\ legacyChecked[1].err.missingFields = <<"bitmaps", "frames">>
    /\ legacyChecked[2].err.missingFields = <<"bitmaps", "frames">>


----------------------------------------------------------------------------
(* Field paths of the validator *)

\* the names of the fields of a value that break a rule, in the order the rules
\* are listed: notNumber are the fields that have to be numbers
FaultsOf(value, notNumber, optional) ==
    [i \in 1..Len(SelectSeq(notNumber, LAMBDA f : TypeOf(Get(value, f[1])) # "number")) |->
        SelectSeq(notNumber, LAMBDA f : TypeOf(Get(value, f[1])) # "number")[i][2]]
    \o [i \in 1..Len(SelectSeq(optional, LAMBDA f : OptionalNotNumber(value, f[1]))) |->
           SelectSeq(optional, LAMBDA f : OptionalNotNumber(value, f[1]))[i][2]]

\* the faulty fields of an object: the fields of a wrong type in the order of
\* the type, then the values out of range
ObjectFaults(o) ==
    FaultsOf(o, <<<<K.index, ".index">>, <<K.x, ".x">>, <<K.y, ".y">>,
                  <<K.scale, ".scale">>, <<K.opacity, ".opacity">>>>,
             <<<<K.mirror, ".mirror">>, <<K.rotate, ".rotate">>>>)
    \o (IF NumBelow(Get(o, K.index), 0) THEN <<".index">> ELSE <<>>)
    \o (IF NumBelow(Get(o, K.opacity), 0) \/ NumAbove(Get(o, K.opacity), 255)
        THEN <<".opacity">> ELSE <<>>)

\* the faulty fields of a sound
SoundFaults(sound) ==
    (IF TypeOf(Get(sound, K.name)) # "string" THEN <<".name">> ELSE <<>>)
    \o FaultsOf(sound, <<>>, <<<<K.volume, ".volume">>, <<K.pitch, ".pitch">>>>)

\* the paths of the faulty fields of the elements of frame.sound or
\* frame.objects, element by element
ElementFaults(elements, path, faults(_)) ==
    Flatten([n \in 1..Len(elements) |->
                [f \in 1..Len(faults(elements[n])) |->
                    Indexed(path, n) \o faults(elements[n])[f]]])

\* the paths of the faulty fields of a frame: its sounds, then its objects
FrameFaults(frame, path) ==
    (IF IsArray(Get(frame, K.sound))
     THEN ElementFaults(Get(frame, K.sound).v, path \o ".sound", SoundFaults)
     ELSE <<>>)
    \o (IF IsArray(Get(frame, K.objects))
        THEN ElementFaults(Get(frame, K.objects).v, path \o ".objects", ObjectFaults)
        ELSE <<>>)

\* the paths of the faulty fields of a metadata, frame by frame
MetaFaults(m) ==
    Flatten([i \in 1..Len(Get(m, K.frame).v) |->
                FrameFaults(Get(m, K.frame).v[i], Indexed("meta.frame", i))])

\* the metadata is one of the declared shape, with a lawful ratio: what it may
\* break are the rules of the fields of its sounds and objects
ShapedMeta ==
    /\ meta \in MetaSet \cup ViolationMetas
    /\ NumAbove(Get(meta, K.ratio), 0)

\* C20: when validateH5AnimateMeta rejects a metadata for a field of a sound or
\* of an object, the fieldPath of the error is the path of the first faulty
\* field in the order of the traversal, "meta.frame[i].sound[k].f" or
\* "meta.frame[i].objects[j].f" with indices counted from 0
C20_FieldPaths ==
    (Called(checked) /\ ShapedMeta /\ MetaFaults(meta) # <<>>) =>
        /\ ~checked.ok
        /\ checked.err.name = "H5AnimateError"
        /\ checked.err.code \in {H5AnimateErrorCode.TYPE_MISMATCH,
                                 H5AnimateErrorCode.VALUE_OUT_OF_RANGE}
        /\ checked.err.fieldPath = MetaFaults(meta)[1]

\* a metadata with a faulty sound in its second frame, after a sound without
\* fault, and a faulty object in the same frame, was rejected for the sound
C20_Witness ==
    /\ Called(checked)
    /\ ShapedMeta
    /\ MetaFaults(meta) = <<"meta.frame[1].sound[1].volume", "meta.frame[1].objects[0].index">>
    /\ checked.err.fieldPath = "meta.frame[1].sound[1].volume"


----------------------------------------------------------------------------
(* The taxonomy of errors *)

\* the code every factory of errors.ts gives its error: the code of the error
\* the factory builds where the factory is part of this model, the member it
\* names otherwise
ErrorFactories ==
    [INVALID_SIGNATURE |-> createInvalidSignatureError(<<>>).code,
     INVALID_VERSION |-> H5AnimateErrorCode.INVALID_VERSION,
     CORRUPTED_HEADER |-> H5AnimateErrorCode.CORRUPTED_HEADER,
     INVALID_IMAGE_DATA |-> H5AnimateErrorCode.INVALID_IMAGE_DATA,
     INVALID_METADATA |-> createInvalidMetadataError(<<>>).code,
     CONVERSION_FAILED |-> createConversionFailedError.code,
     WEBP_PROCESSING_ERROR |-> createWebPProcessingError.code,
     VALIDATION_ERROR |-> createValidationError(<<>>).code,
     TYPE_MISMATCH |-> createTypeMismatchError("").code,
     MISSING_REQUIRED_FIELD |-> createMissingFieldError(<<>>, "").code,
     VALUE_OUT_OF_RANGE |-> createValueOutOfRangeError("").code,
     INVALID_ARRAY_LENGTH |-> H5AnimateErrorCode.INVALID_ARRAY_LENGTH,
     FILE_TRUNCATED |-> H5AnimateErrorCode.FILE_TRUNCATED,
     SIZE_MISMATCH |-> H5AnimateErrorCode.SIZE_MISMATCH,
     JSON_PARSE_ERROR |-> H5AnimateErrorCode.JSON_PARSE_ERROR,
     BASE64_DECODE_ERROR |-> H5AnimateErrorCode.BASE64_DECODE_ERROR,
     IMAGE_MERGE_ERROR |-> H5AnimateErrorCode.IMAGE_MERGE_ERROR,
     FRAME_EXTRACTION_ERROR |-> H5AnimateErrorCode.FRAME_EXTRACTION_ERROR]

\* the errors the calls of the encode/decode script have thrown so far
ThrownErrors ==
    {o.err : o \in {c \in {checked, encoded, decoded, reencoded, redecoded} :
                       Called(c) /\ ~c.ok /\ c.err.name = "H5AnimateError"}}

\* C21: no two members of H5AnimateErrorCode have the same code, every factory
\* gives its error the code of the member it is named after, two factories never
\* give the same code, and every H5AnimateError thrown carries a code of the
\* taxonomy
C21_CodesUnique ==
    /\ \A a, b \in DOMAIN H5AnimateErrorCode :
           H5AnimateErrorCode[a] = H5AnimateErrorCode[b] => a = b
    /\ \A f \in DOMAIN ErrorFactories : ErrorFactories[f] = H5AnimateErrorCode[f]
    /\ \A f, g \in DOMAIN ErrorFactories : ErrorFactories[f] = ErrorFactories[g] => f = g
    /\ \A e \in ThrownErrors :
           Cardinality({a \in DOMAIN H5AnimateErrorCode : H5AnimateErrorCode[a] = e.code}) = 1

\* errors of two kinds were thrown in one run, with their two codes: the
\* validator's for a ratio of 0, the decoder's for a changed signature
C21_Witness ==
    /\ ThrewCode(checked, "H5A103")
    /\ ThrewCode(decoded, "H5A001")
    /\ checked.err.fieldPath = "meta.ratio"
    /\ damage.kind = "signature"


----------------------------------------------------------------------------
(* The ownership script: a caller encodes, writes into the payload it passed,
   decodes the file, and writes into the file it passed *)

\* where the webpData of decodeH5Animate(bytes) lies in bytes: readBytes returns
\* buffer.subarray(offset, offset + length), a view of the memory of the file
webpDataView(bytes, header, info) ==
    [start |-> info.offset,
     end |-> info.offset + header.val.imageDataSize - getSpriteInfoSize(info.val)]

\* the bundle decodeH5Animate(before) returned, as it reads once the memory of
\* the file holds `after`: meta and spriteInfo are objects of their own,
\* webpData is the view
bundleOver(bundle, before, after) ==
    Return(Bundle(bundle.val.v.meta, bundle.val.v.spriteInfo,
                  Buf(Subarray(after,
                               webpDataView(before, parseHeader(before, 0),
                                   parseSpriteInfo(before, parseHeader(before, 0).offset)).start,
                               webpDataView(before, parseHeader(before, 0),
                                   parseSpriteInfo(before, parseHeader(before, 0).offset)).end))))

OwnInputs ==
    {StdMeta} \X {StdSpriteInfo, SpriteInfo(0, <<>>)} \X {Payload(n) : n \in 1..MaxPayload}

OwnInit ==
    /\ \E in \in OwnInputs :
          /\ meta = in[1]
          /\ spriteInfo = in[2]
          /\ webpData = in[3]
    /\ pc = "own"
    /\ checked = NotCalled
    /\ encoded = NotCalled
    /\ damage = NoDamage
    /\ buffer = <<>>
    /\ decoded = NotCalled
    /\ reencoded = NotCalled
    /\ redecoded = NotCalled
    /\ ConverterIdle
    /\ SheetIdle
    /\ ParserIdle
    /\ calls = <<>>

\* file = encodeH5Animate(meta, spriteInfo, webpData)
OwnEncode ==
    /\ pc = "own"
    /\ \E fill \in Fill :
          /\ encoded' = encodeH5Animate(meta, spriteInfo, webpData, fill)
          /\ encoded'.ok
          /\ buffer' = encoded'.val.v
    /\ pc' = "encoded"
    /\ UNCHANGED <<meta, spriteInfo, webpData, checked, damage, decoded, reencoded,
                   redecoded>>
    /\ UNCHANGED <<converterVars, sheetVars, parserVars, calls>>

\* webpData[i] = 0 after encodeH5Animate has returned: writeBuffer copied the
\* payload into the writer's own buffer, which the write does not reach
OverwriteArgument ==
    /\ pc = "encoded"
    /\ \E i \in 1..Len(webpData.v) : webpData' = Buf([webpData.v EXCEPT ![i] = 0])
    /\ pc' = "argument written"
    /\ UNCHANGED <<meta, spriteInfo, checked, encoded, damage, buffer, decoded, reencoded,
                   redecoded>>
    /\ UNCHANGED <<converterVars, sheetVars, parserVars, calls>>

\* decoded = decodeH5Animate(file)
OwnDecode ==
    /\ pc \in {"encoded", "argument written"}
    /\ decoded' = decodeH5Animate(buffer)
    /\ pc' = "decoded"
    /\ UNCHANGED <<meta, spriteInfo, webpData, checked, encoded, damage, buffer,
                   reencoded, redecoded>>
    /\ UNCHANGED <<converterVars, sheetVars, parserVars, calls>>

\* file[i] = 0 after decodeH5Animate has returned: the webpData of the bundle
\* is a view of the file and reads what the file holds
OverwriteFile ==
    /\ pc = "decoded"
    /\ decoded.ok
    /\ \E i \in 1..Len(buffer) :
          /\ buffer' = [buffer EXCEPT ![i] = 0]
          /\ decoded' = bundleOver(decoded, buffer, buffer')
    /\ pc' = "file written"
    /\ UNCHANGED <<meta, spriteInfo, webpData, checked, encoded, damage, reencoded,
                   redecoded>>
    /\ UNCHANGED <<converterVars, sheetVars, parserVars, calls>>

OwnNext == OwnEncode \/ OverwriteArgument \/ OwnDecode \/ OverwriteFile

OwnSpec == OwnInit /\ [][OwnNext]_vars

\* C22: encodeH5Animate and decodeH5Animate leave their arguments as they were,
\* and a write into an argument after the call has returned leaves the value
\* the call returned as it was
C22_NoAliasing ==
    [][/\ OwnEncode => UNCHANGED <<meta, spriteInfo, webpData>>
       /\ OwnDecode => UNCHANGED buffer
       /\ OverwriteArgument => UNCHANGED <<encoded, buffer>>
       /\ OverwriteFile => UNCHANGED decoded]_vars


----------------------------------------------------------------------------
(* Properties of the decoder *)

\* values of the version field: none, the current one, the next, and 2^31 - 1
Versions == {0, CURRENT_VERSION, 2, 2147483647}

\* C23: a buffer that differs from the decoded one in the version field only,
\* bytes 4..7, decodes to the same bundle, or fails with the same error
C23_VersionIgnored ==
    (Called(decoded) /\ Len(buffer) >= 8) =>
        \A version \in Versions : decodeH5Animate(SetU32(buffer, 4, version)) = decoded

\* a file whose version field was changed to 2 was decoded to a bundle
C23_Witness ==
    /\ Called(decoded)
    /\ damage.kind = "version"
    /\ U32At(buffer, 4) = 2
    /\ decoded.ok


----------------------------------------------------------------------------
(* The parser script: reads are asked of a BinaryParser, one after the other *)

MaxBuffer == 5
MaxRead == 3
MaxReads == 3

\* the lengths a caller asks for; decodeH5Animate asks for
\* header.imageDataSize - spriteInfoSize bytes, which a file can make negative
ReadLengths == -1..MaxRead

ParserInit ==
    /\ pc = "parser"
    /\ \E n \in 0..MaxBuffer : parser = [buffer |-> [i \in 1..n |-> 64 + i], offset |-> 0]
    /\ lastRead = [op |-> "none", length |-> 0, at |-> 0, nth |-> 0, out |-> NotCalled]
    /\ consumed = 0
    /\ CodecIdle
    /\ ConverterIdle
    /\ SheetIdle
    /\ calls = <<>>

\* the state after a read: the parser at the offset the read left, the read
\* noted, its size counted when it succeeded
AfterRead(op, length, out) ==
    /\ parser' = [parser EXCEPT !.offset = out.offset]
    /\ lastRead' = [op |-> op, length |-> length, at |-> parser.offset,
                    nth |-> lastRead.nth + 1, out |-> out]
    /\ consumed' = IF out.ok THEN consumed + length ELSE consumed
    /\ UNCHANGED <<pc, codecVars, converterVars, sheetVars, calls>>

\* parser.readUInt32LE()
ReadUInt32LE ==
    /\ pc = "parser"
    /\ lastRead.nth < MaxReads
    /\ AfterRead("readUInt32LE", 4, readUInt32LE(parser.buffer, parser.offset))

\* parser.readString(length)
ReadString ==
    /\ pc = "parser"
    /\ lastRead.nth < MaxReads
    /\ \E length \in ReadLengths :
           AfterRead("readString", length, readString(parser.buffer, parser.offset, length))

\* parser.readBytes(length)
ReadBytes ==
    /\ pc = "parser"
    /\ lastRead.nth < MaxReads
    /\ \E length \in ReadLengths :
           AfterRead("readBytes", length, readBytes(parser.buffer, parser.offset, length))

ParserNext == ReadUInt32LE \/ ReadString \/ ReadBytes

ParserSpec == ParserInit /\ [][ParserNext]_vars

\* parser.getRemainingBytes()
getRemainingBytes == Len(parser.buffer) - parser.offset

\* C24: a read of n bytes asked when offset + n exceeds the length of the buffer
\* throws a CORRUPTED_HEADER or FILE_TRUNCATED error whose position is the
\* offset at the moment of the read, and gives no data
C24_ReadOutOfBounds ==
    (lastRead.op # "none" /\ lastRead.at + lastRead.length > Len(parser.buffer)) =>
        /\ ~lastRead.out.ok
        /\ lastRead.out.err.name = "H5AnimateError"
        /\ lastRead.out.err.code \in {H5AnimateErrorCode.CORRUPTED_HEADER,
                                      H5AnimateErrorCode.FILE_TRUNCATED}
        /\ lastRead.out.err.position = Num(lastRead.at)
        /\ lastRead.out.val = Undefined

\* after two bytes were read, a read of three bytes from a buffer of four was
\* refused at position 2
C24_Witness ==
    /\ lastRead.op = "readBytes"
    /\ Len(parser.buffer) = 4
    /\ lastRead.at = 2
    /\ lastRead.length = 3
    /\ lastRead.out.err.position = Num(2)
    /\ lastRead.out.err.code = H5AnimateErrorCode.CORRUPTED_HEADER

\* C25: after any sequence of reads the offset is the sum of the sizes of the
\* reads that succeeded, it lies in 0..length of the buffer, so that
\* getRemainingBytes lies there too, and a read that failed has left it where
\* it was
C25_CursorInvariant ==
    pc = "parser" =>
        /\ parser.offset = consumed
        /\ 0 <= parser.offset /\ parser.offset <= Len(parser.buffer)
        /\ 0 <= getRemainingBytes /\ getRemainingBytes <= Len(parser.buffer)
        /\ (lastRead.op # "none" /\ ~lastRead.out.ok) => parser.offset = lastRead.at


----------------------------------------------------------------------------
(* The order of the conversion *)

\* the outcome of convertImages on the bitmaps of the legacy file
ImagesConverted == convertImages(Get(legacyData, K.bitmaps))

\* C26: convertToH5Animate runs validateLegacyFormat, convertImages,
\* convertMetadata and encodeH5Animate in this order; the pixel codec is called
\* only when the validation has passed, the encoder only after the images were
\* packed and the metadata converted, and a step that fails ends the call with
\* its error, no later step being run
C26_PipelineOrder ==
    pc = "done" =>
        /\ \E n \in 1..4 : steps = PipelineSteps(n)
        /\ ~legacyChecked[1].ok =>
               /\ steps = PipelineSteps(1)
               /\ calls = <<>>
               /\ converted = legacyChecked[1]
        /\ (legacyChecked[1].ok /\ ~ImagesConverted.out.ok) =>
               /\ steps = PipelineSteps(2)
               /\ converted = ImagesConverted.out
               /\ calls = ImagesConverted.calls
               /\ CallsOf("encode") = <<>>
        /\ (legacyChecked[1].ok /\ ImagesConverted.out.ok /\ ~convertMetadata(legacyData).ok) =>
               /\ steps = PipelineSteps(3)
               /\ converted = convertMetadata(legacyData)
               /\ CallsOf("encode") = <<>>
        /\ CallsOf("encode") # <<>> =>
               /\ steps = PipelineSteps(4)
               /\ legacyChecked[1].ok
               /\ ImagesConverted.out.ok
               /\ convertMetadata(legacyData).ok
               /\ calls = Append(ImagesConverted.calls, calls[Len(calls)])
               /\ calls[Len(calls)].op = "encode"
               /\ calls[Len(calls)].input = ImagesConverted.out.val.v.webpData.v

\* the codec has refused the bitmap of a valid legacy file: the call ended
\* after its second step, the encoder was not called
C26_Witness ==
    /\ pc = "done"
    /\ legacyChecked[1].ok
    /\ calls # <<>>
    /\ ~converted.ok
    /\ converted.err.code = H5AnimateErrorCode.WEBP_PROCESSING_ERROR
    /\ steps = <<"validateLegacyFormat", "convertImages">>

\* a call that ran its four steps, the encoder last
C26_AllSteps ==
    /\ pc = "done"
    /\ converted.ok
    /\ Len(steps) = 4
    /\ calls[Len(calls)].op = "encode"

\* a call that ended at convertMetadata
C26_MetadataFailed ==
    /\ pc = "done"
    /\ steps = PipelineSteps(3)


----------------------------------------------------------------------------
(* Addressing of the packed images *)

\* the images of the sheet in the order they were stacked: the inputs of the
\* measuring pass of createVerticalSpriteSheet, image k (from 0) at [k + 1]
StackedImages == [k \in 1..Len(CallsOf("metadata")) |-> CallsOf("metadata")[k].input]

\* the bitmaps of the legacy file
BitmapsOf(legacy) == Get(legacy, K.bitmaps).v

\* C27: after a conversion the k-th image stacked in the sheet is the image of
\* bitmaps[k], for every bitmap that holds an image, also when other entries
\* of bitmaps are empty strings
C27_IndexAddressing ==
    (pc = "done" /\ converted.ok) =>
        \A k \in 0..(Len(BitmapsOf(legacyData)) - 1) :
            Len(BitmapsOf(legacyData)[k + 1].v) > 0 =>
                /\ k < Len(StackedImages)
                /\ StackedImages[k + 1] = base64ToBuffer(BitmapsOf(legacyData)[k + 1].v)


----------------------------------------------------------------------------
(* The decoded sprite table *)

\* the spriteInfo of the decoded bundle
DecodedSpriteInfo == decoded.val.v.spriteInfo

\* C28: the spriteInfo of every bundle decodeH5Animate returns has as many
\* dimensions as its count, which is the count of the buffer, and pair i is
\* the i-th pair of the buffer
C28_DimensionsCount ==
    decoded.ok =>
        /\ Get(DecodedSpriteInfo, K.count) = Num(U32At(buffer, 16))
        /\ Len(Get(DecodedSpriteInfo, K.dimensions).v) = Get(DecodedSpriteInfo, K.count).v
        /\ \A i \in 1..Len(Get(DecodedSpriteInfo, K.dimensions).v) :
               Get(DecodedSpriteInfo, K.dimensions).v[i]
                   = Obj(<<<<K.width, Num(U32At(buffer, 20 + 8 * (i - 1)))>>,
                           <<K.height, Num(U32At(buffer, 24 + 8 * (i - 1)))>>>>)

\* a table of two different pairs was decoded
C28_Witness ==
    /\ decoded.ok
    /\ Get(DecodedSpriteInfo, K.count) = Num(2)
    /\ Len(Get(DecodedSpriteInfo, K.dimensions).v) = 2
    /\ Get(DecodedSpriteInfo, K.dimensions).v[1] # Get(DecodedSpriteInfo, K.dimensions).v[2]


----------------------------------------------------------------------------
(* Truncated files *)

\* the first n bytes of a file
Prefix(bytes, n) == SubSeq(bytes, 1, n)

\* the outcome is an H5AnimateError that carries a position
ThrewWithPosition(outcome) ==
    /\ ~outcome.ok
    /\ outcome.err.name = "H5AnimateError"
    /\ outcome.err.position.t = "number"

\* spriteInfo.count is the number of dimensions
CountMatches == Get(spriteInfo, K.count) = Num(Len(Get(spriteInfo, K.dimensions).v))

\* C29: when encodeH5Animate has returned a buffer for a spriteInfo whose count
\* is the number of its dimensions, decodeH5Animate on any proper prefix of
\* the buffer throws an H5AnimateError carrying a position; so did the decode
\* of the file that was cut
C29_TruncationDetected ==
    /\ (pc = "encoded" /\ CountMatches) =>
           \A n \in 0..(Len(encoded.val.v) - 1) :
               ThrewWithPosition(decodeH5Animate(Prefix(encoded.val.v, n)))
    /\ (Called(decoded) /\ damage.kind = "cut" /\ CountMatches) =>
           ThrewWithPosition(decoded)

\* a file that lost its last byte was refused at the start of its metadata
C29_Witness ==
    /\ damage.kind = "cut"
    /\ CountMatches
    /\ Len(buffer) = Len(encoded.val.v) - 1
    /\ ThrewWithPosition(decoded)
    /\ decoded.err.position = Num(16 + U32At(buffer, 8))


----------------------------------------------------------------------------
(* The writer at the end of an encoding *)

\* the writer encodeH5Animate ends with on the arguments of the script
FinalWriter(fill) ==
    encodeWriter(Utf8Encode(JsonStringify(<<>>, meta)), spriteInfo, webpData, fill)

\* the writer stands at the end of its buffer and has written every byte of it
ExactlyFilled(w) ==
    /\ w.offset = Len(w.buffer)
    /\ w.written = 1..Len(w.buffer)

\* C30: whenever encodeH5Animate returns, its buffer has
\* 16 + imageDataSize + metaDataSize bytes, the writer stands at the end of
\* the buffer, and every byte of the buffer was written
C30_ExactFill ==
    encoded.ok =>
        /\ Len(encoded.val.v) = 16 + U32At(encoded.val.v, 8) + U32At(encoded.val.v, 12)
        /\ \A fill \in Fill : ExactlyFilled(FinalWriter(fill))

====
